---- MODULE Spec2Model ----
(***************************************************************************)
(* Echo Genesis: the world/object lifecycle manager, the physics and       *)
(* collision subsystem, the spatial grid and the player ability table,     *)
(* modelled as state machines, one specification per subsystem.            *)
(***************************************************************************)
EXTENDS Integers, Sequences, FiniteSets, TLC

(***************************************************************************)
(* Bounds of the model.                                                    *)
(***************************************************************************)
NObj == 2
MaxQueue == 2
MaxOps == 3
MaxFrames == 2
\* boxes: side length, largest offset of B from A, largest speed (world units)
BoxSize == 3
MaxOffset == 3
MaxSpeed == 1
\* trigger scenario: frames, row length, speed per sub-step, callback count
MaxTrigFrames == 3
MaxX == 160
StepLen == 5
MaxCalls == 3
\* player: operations per run, highest ability level
MaxPlayerOps == 4
MaxLevel == 1
\* spatial grid: objects on the row
NGrid == 3
\* the fall: frames stepped
MaxFallFrames == 1600
\* the patrol: frames stepped
MaxPatrolFrames == 60
\* saved state: ticks of the world clock
MaxTime == 2
\* level descriptions: checkpoints listed
MaxCheckpoints == 1
\* throwing updates: objects in the list
MaxListed == 3
\* gravity: frames stepped
MaxHoverFrames == 20
\* level after level: loadLevel calls, entities per spawn list
MaxLoads == 3
MaxSpawn == 2
\* power-up: physics steps
MaxPickupSteps == 3
\* key presses: frames
MaxInputFrames == 5
\* enemy AI: frames
MaxAiFrames == 4
\* fragile platform: collisions, milliseconds
MaxHits == 3
MaxMs == 1500
\* collision records in one sub-step
MaxRecords == 2
\* flying enemy: calls of update, milliseconds
MaxStunUpdates == 1
MaxStunMs == 1500
\* game state machine: calls
MaxGameCalls == 5
\* paused world: frames, calls of pause, resume and setTimeScale
MaxFreezeFrames == 4
MaxFreezeCalls == 3
\* player damage: deaths
MaxDeaths == 4
\* jumping in the air: frames
MaxJumpFrames == 8
\* world events: callbacks, registered listeners, calls
NCallbacks == 2
MaxListeners == 3
MaxEventCalls == 4
\* object update: calls
MaxOrderCalls == 4
\* layer filter: calls of detectCollisions
MaxLayerSteps == 2
\* terminal velocity: frames, calls of addImpulse
MaxTerminalFrames == 4
MaxImpulses == 2

VARIABLES
    \* ---- World (part_003) and the frame loop of Game.update ----
    gameObjects,    \* World.gameObjects: sequence of object references
    toAdd,          \* World.toAdd
    toRemove,       \* World.toRemove
    layers,         \* World.layers: layer name -> layer.objects
    arrayLayers,    \* layer names whose value loadLevel replaced by a tile array
    destroyed,      \* objects whose destroyed flag is set (active is then false)
    wpaused,        \* World.paused
    pc,             \* position of the frame loop
    physObjects,    \* the list the running/last Physics.update iterates
    frame,          \* frames started so far
    ops,            \* calls into the World made so far
    addedNow,       \* objects passed to addObject during this frame's World.update
    addedFresh,     \* ... those that were not in gameObjects at that moment
    addedPrev,      \* addedFresh of the previous frame
    destroyedNow,   \* live objects on which destroy() ran during this frame
    destroyedPrev,  \* destroyedNow of the previous frame
    destroyedOld,   \* objects destroyed before this frame's sweep started
    sweptRemove,    \* content of toRemove when this frame's sweep started
    ranUpdate,      \* this frame's World.update got past the paused check
    sinceClear,     \* clearLevel has returned; objects passed to addObject since
    \* ---- Physics: narrow phase and resolution of one pair (Physics.js) ----
    bpos,           \* position of boxes A and B, in 1/Scale units
    bvel,           \* velocity of A and B, in 1/Scale units per second
    bmass,          \* mass of A and B
    bsolid,         \* solid flag of A and B
    btrigger,       \* isTrigger flag of A and B
    bphase,         \* "overlap" before, "resolved" after one resolution pass
    bhit,           \* the collision record of the pass (hit, normal, penetration)
    bpos0,          \* positions before the pass
    \* ---- Physics.update over a trigger and a moving object (Physics.js) ----
    mx,             \* x position of the moving non-trigger object
    mv,             \* its velocity, in units per sub-step
    tshare,         \* the grid built for this frame holds both in one cell
    tsub,           \* sub-steps of this frame's Physics.update done so far
    tphase,         \* "world": World.update is next; "physics": sub-steps run
    tcalls,         \* onTriggerEnter calls on the trigger in the present overlap
    tframes,        \* frames started
    thasCb,         \* the trigger instance has an onTriggerEnter callback
    \* ---- Player (part_001): ability table and movement state ----
    pab,            \* Player.abilities: name -> descriptor
    pvel,           \* Player.velocity, in 1/VScale units per second
    pfacing,        \* Player.facingDirection
    pgrav,          \* Player.gravityScale, in tenths
    pgrounded,      \* Player.isGrounded
    pjumpBuf,       \* Player.jumpBufferTimer, in frames
    plastGround,    \* Player.lastGroundedTime, in frames
    ptimers,        \* pending setTimeout callbacks of performDash
    pop,            \* the operation that ran last
    pcount,         \* operations run so far
    \* ---- SpatialGrid (Physics.js): the broad phase over objects with ids ----
    gid,            \* obj.id of each object
    gx,             \* obj.position.x of each object
    gdead,          \* objects with destroyed set
    grid,           \* SpatialGrid.grid: cells in insertion order
    gpairs,         \* the array getPotentialCollisionPairs returned last
    gphase,         \* position inside Physics.update
    \* ---- Physics.raycast against one box ----
    rox,            \* ray origin x
    roy,            \* ray origin y
    rdir,           \* ray direction x (the ray runs along the x axis)
    rmax,           \* maxDistance
    rbx,            \* x of the box; its y is 0
    rres,           \* what the last raycast call produced
    rphase,         \* "ready" before the call, "done" after it
    \* ---- a level with a ground strip and a player falling onto it ----
    fstate,         \* Game.gameState
    fcollision,     \* world.layers.get('collision'): the solid tile rows
    fobjects,       \* world.gameObjects
    ftoAdd,         \* world.toAdd
    fy,             \* player.position.y, in 1/PScale units
    fvy,            \* player.velocity.y, in 1/VScale units per second
    fay,            \* player.acceleration.y, in 1/VScale units per second^2
    fgravity,       \* physics.gravity.y
    fgrounded,      \* player.isGrounded
    fstep,          \* which half of Game.update runs next
    fframes,        \* frames stepped so far
    \* ---- Enemy (part_000): the patrol of one enemy ----
    ex,             \* enemy.position.x - startPosition.x, in 1/TScale units
    evx,            \* enemy.velocity.x, in units per second
    edir,           \* enemy.direction
    etimer,         \* enemy.stateTimer, in 1/TScale seconds
    eprevDist,      \* distanceFromStart at the previous frame's updatePatrol
    edist,          \* distanceFromStart at the last updatePatrol
    eflipped,       \* the last updatePatrol reversed the direction
    etimedOut,      \* stateTimer was above the timeout at the last updatePatrol
    eframes,        \* frames stepped so far
    \* ---- World.saveGameState / loadGameState ----
    scur,           \* world.currentLevel ("null" for null)
    sarr,           \* the layers Map holds the tile arrays of a loaded level
    scps,           \* ids of world.checkpoints
    scp,            \* id of world.currentCheckpoint ("null" for null)
    sflags,         \* names set in world.worldFlags
    scoll,          \* ids in world.collectibles
    stime,          \* world.worldTime, in ticks
    ssnap,          \* the object saveGameState returned last
    sres,           \* how the last loadLevel or loadGameState ended
    sop,            \* the operation that ran last
    \* ---- World.loadLevel on a level description ----
    ldesc,          \* the level description passed to loadLevel
    lphase,         \* "new" before loadLevel, "loaded" after it
    lres,           \* how loadLevel ended
    lcps,           \* number of checkpoints loadCheckpoints created
    lents,          \* types of the entities processEntities created
    lspawn,         \* playerSpawn was taken from the description
    lasync,         \* state of the import() promise of loadLevelEntities
    \* ---- a frame over objects of which some throw in update ----
    ukinds,         \* world.gameObjects: the class of each object, in list order
    uactive,        \* indices of the objects with active set
    uupdated,       \* indices of the objects whose update ran in this frame
    uphysics,       \* Physics.update ran in this frame
    upc,            \* position of the game loop
    \* ---- the player taking damage ----
    dhealth,        \* player.health
    dlives,         \* player.lives
    dinv,           \* player.invulnerabilityTime, in 1/TScale seconds
    dvel,           \* player.velocity.x
    dres,           \* what the last takeDamage returned
    dop,            \* the operation that produced this state
    dpre,           \* health, lives, timer and velocity when takeDamage was called
    \* ---- an object with or without gravity, frame after frame ----
    hscale,         \* obj.gravityScale
    hy,             \* obj.position.y, in 1/PScale units
    hvy,            \* obj.velocity.y, in 1/VScale units per second
    hay,            \* obj.acceleration.y, in 1/VScale units per second^2
    hstart,         \* position.y and velocity.y the object was created with
    hforced,        \* addForce has been called on the object by something else
    hstep,          \* which half of Game.update runs next
    hframes,        \* frames stepped so far
    \* ---- loading one level after another ----
    rspawn,         \* how many entities each level's spawn list has
    rcur,           \* the level named in the last loadLevel call
    rarrays,        \* the layer Map holds tile arrays (a loadLevel got that far)
    rimports,       \* import chains started by loadLevelEntities, oldest first
    rtoAdd,         \* world.toAdd: entities, each with the level it came from
    rlive,          \* world.gameObjects
    rloads,         \* loadLevel calls so far
    \* ---- the player and one power-up ----
    kpower,         \* powerUp.powerType as the constructor received it
    kpx,            \* player.position.x
    khealth,        \* player.health
    kscore,         \* player.score
    kunlocked,      \* names of the abilities unlockAbility has enabled
    kapplied,       \* how many times an effect has been applied to the player
    kcollected,     \* powerUp.collected
    kdestroyed,     \* powerUp.destroyed
    kmet,           \* a physics step has run with the two boxes overlapping
    ksteps,         \* physics steps so far
    \* ---- key events and the frames that read them ----
    ikeys,          \* inputManager.keys: the keys held
    ikeysDown,      \* inputManager.keysDown: the keys pressed "this frame"
    ipending,       \* a jump key press was delivered since the last frame
    ipressed,       \* ... before the frame that has just run
    iseen,          \* what isActionDown('jump') returned in that frame's Player update
    iframes,        \* frames so far
    \* ---- an enemy's AI states with a player nearby ----
    aphysics,       \* window.game.physics is set when canSeeTarget runs
    apx,            \* the player's centre x, in 1/TScale units
    aex,            \* the enemy's centre x, in 1/TScale units
    avx,            \* enemy.velocity.x
    astate,         \* enemy.aiState
    alast,          \* enemy.lastSeenTarget: <<>> for null, else <<x>>
    adir,           \* enemy.direction
    atimer,         \* enemy.stateTimer, in 1/TScale seconds
    aprev,          \* aiState before the frame that has just run
    asight,         \* that frame's sight test passed
    ares,           \* how that frame's update ended
    aframes,        \* frames so far
    \* ---- a platform the player collides with ----
    qtype,          \* platform.platformType
    qhealth,        \* platform.health (0 stands for undefined on other types)
    qtimers,        \* pending setTimeout callbacks: milliseconds left, oldest first
    qeffects,       \* crumble effects created
    qdestroys,      \* calls of platform.destroy()
    qdestroyed,     \* platform.destroyed
    qhits,          \* collisions with the player so far
    qtime,          \* milliseconds passed
    \* ---- the collision records of a sub-step ----
    zhook,          \* what each object's onCollision does
    zpairs,         \* physics.collisionPairs, in the order they are resolved
    zdestroyed,     \* the destroyed objects
    zcalls,         \* callbacks run in the last resolveCollisions: <<on, other>>
    zlate,          \* objects called back, passed as other or moved after their destruction
    zphase,         \* what the sub-step does next
    zsteps,         \* sub-steps so far
    \* ---- a flying enemy that is hit ----
    nhealth,        \* enemy.health
    nstate,         \* enemy.state
    ndestroyed,     \* enemy.destroyed
    ntimers,        \* pending stun callbacks: milliseconds left, oldest first
    nsince,         \* milliseconds since the most recent non-lethal hit, -1 before it
    nearly,         \* a callback ended a stun before StunDelay had passed since that hit
    nposthumous,    \* a callback changed the state of the destroyed enemy
    nupdates,       \* calls of enemy.update
    ntime,          \* milliseconds passed
    \* ---- the game's state machine ----
    jstate,         \* game.gameState
    jpaused,        \* game.paused
    jarr,           \* the world's layer Map holds the tile arrays of a loaded level
    jcur,           \* world.currentLevel is set
    jsave,          \* localStorage.echoGenesisSave: "none", or what its world.level is
    jres,           \* how the last call ended
    jcount,         \* calls so far
    \* ---- an object in a world that is paused or slowed ----
    vpaused,        \* world.paused
    vtimeScale,     \* world.timeScale
    vposy,             \* obj.position.y
    vvely,            \* obj.velocity.y
    vaccy,            \* obj.acceleration.y
    vworldTime,     \* world.worldTime, in frames
    vstep,          \* what Game.update does next: "world" or "physics"
    vframes,        \* frames done
    vcalls,         \* calls of pause, resume and setTimeScale
    \* ---- a player in the air that jumps ----
    xab,            \* player.abilities
    xvel,           \* player.velocity.y
    xacc,           \* player.acceleration.y
    xgrounded,      \* player.isGrounded
    xlast,          \* player.lastGroundedTime, in frames
    xbuf,           \* player.jumpBufferTimer, in frames
    xmulti,         \* performMultiJump calls since the player left the platform
    xstep,          \* what Game.update does next: "world" or "physics"
    xframes,        \* frames done
    \* ---- the listeners of one event type ----
    olisteners,     \* world.eventListeners.get(type), a list of callbacks
    ostart,         \* the list when the last triggerEvent started
    ocalled,        \* the callbacks the last triggerEvent invoked, in order
    oop,            \* the last call
    ocount,         \* calls so far
    \* ---- a game object whose update is called ----
    yactive,        \* obj.active
    ydestroyed,     \* obj.destroyed
    ypos,           \* obj.position.x
    yvel,           \* obj.velocity.x
    yacc,           \* obj.acceleration.x
    ytrace,         \* the steps the last update ran, in order
    ypre,           \* the object before the last update
    yop,            \* the last call
    ycount,         \* calls so far
    \* ---- two overlapping objects and the layer filter ----
    ckindA,         \* the class of the first object of the pair
    ckindB,         \* the class of the second object
    cdead,          \* the objects of the pair that were destroyed
    ctested,        \* the last detectCollisions made the AABB test for the pair
    cphase,         \* "empty", "placed" or "detected"
    csteps,         \* calls of detectCollisions
    \* ---- an object falling at terminal velocity ----
    wvel,           \* obj.velocity.y
    wacc,           \* obj.acceleration.y
    wdelta,         \* game.deltaTime of the running frame, in 1/60 s
    wstep,          \* what comes next: "world" or "physics"
    wlast,          \* the last step done
    wframes,        \* frames done
    wimpulses       \* calls of addImpulse

worldVars == <<gameObjects, toAdd, toRemove, layers, arrayLayers, destroyed,
               wpaused, pc, physObjects, frame, ops, addedNow, addedFresh,
               addedPrev, destroyedNow, destroyedPrev, destroyedOld, sweptRemove,
               ranUpdate, sinceClear>>

boxVars == <<bpos, bvel, bmass, bsolid, btrigger, bphase, bhit, bpos0>>

trigVars == <<mx, mv, tshare, tsub, tphase, tcalls, tframes, thasCb>>

playerVars == <<pab, pvel, pfacing, pgrav, pgrounded, pjumpBuf, plastGround, ptimers, pop, pcount>>

gridVars == <<gid, gx, gdead, grid, gpairs, gphase>>

rayVars == <<rox, roy, rdir, rmax, rbx, rres, rphase>>

fallVars == <<fstate, fcollision, fobjects, ftoAdd, fy, fvy, fay, fgravity, fgrounded, fstep, fframes>>

enemyVars == <<ex, evx, edir, etimer, eprevDist, edist, eflipped, etimedOut, eframes>>

saveVars == <<scur, sarr, scps, scp, sflags, scoll, stime, ssnap, sres, sop>>

levelVars == <<ldesc, lphase, lres, lcps, lents, lspawn, lasync>>

updateVars == <<ukinds, uactive, uupdated, uphysics, upc>>

damageVars == <<dhealth, dlives, dinv, dvel, dres, dop, dpre>>

hoverVars == <<hscale, hy, hvy, hay, hstart, hforced, hstep, hframes>>

reloadVars == <<rspawn, rcur, rarrays, rimports, rtoAdd, rlive, rloads>>

pickupVars == <<kpower, kpx, khealth, kscore, kunlocked, kapplied, kcollected, kdestroyed, kmet, ksteps>>

inputVars == <<ikeys, ikeysDown, ipending, ipressed, iseen, iframes>>

aiVars == <<aphysics, apx, aex, avx, astate, alast, adir, atimer, aprev, asight, ares, aframes>>

crumbleVars == <<qtype, qhealth, qtimers, qeffects, qdestroys, qdestroyed, qhits, qtime>>

recordsVars == <<zhook, zpairs, zdestroyed, zcalls, zlate, zphase, zsteps>>

stunVars == <<nhealth, nstate, ndestroyed, ntimers, nsince, nearly, nposthumous, nupdates, ntime>>

gameVars == <<jstate, jpaused, jarr, jcur, jsave, jres, jcount>>

freezeVars == <<vpaused, vtimeScale, vposy, vvely, vaccy, vworldTime, vstep, vframes, vcalls>>

jumpVars == <<xab, xvel, xacc, xgrounded, xlast, xbuf, xmulti, xstep, xframes>>

eventVars == <<olisteners, ostart, ocalled, oop, ocount>>

orderVars == <<yactive, ydestroyed, ypos, yvel, yacc, ytrace, ypre, yop, ycount>>

layerVars == <<ckindA, ckindB, cdead, ctested, cphase, csteps>>

terminalVars == <<wvel, wacc, wdelta, wstep, wlast, wframes, wimpulses>>

vars == <<worldVars, boxVars, trigVars, playerVars, gridVars, rayVars, fallVars, enemyVars, saveVars, levelVars, updateVars, damageVars, hoverVars, reloadVars, pickupVars, inputVars, aiVars, crumbleVars, recordsVars, stunVars, gameVars, freezeVars, jumpVars, eventVars, orderVars, layerVars, terminalVars>>

\* what the actions of one subsystem leave alone
notWorld == <<boxVars, trigVars, playerVars, gridVars, rayVars, fallVars, enemyVars, saveVars, levelVars, updateVars, damageVars, hoverVars, reloadVars, pickupVars, inputVars, aiVars, crumbleVars, recordsVars, stunVars, gameVars, freezeVars, jumpVars, eventVars, orderVars, layerVars, terminalVars>>
notBox == <<worldVars, trigVars, playerVars, gridVars, rayVars, fallVars, enemyVars, saveVars, levelVars, updateVars, damageVars, hoverVars, reloadVars, pickupVars, inputVars, aiVars, crumbleVars, recordsVars, stunVars, gameVars, freezeVars, jumpVars, eventVars, orderVars, layerVars, terminalVars>>
notTrig == <<worldVars, boxVars, playerVars, gridVars, rayVars, fallVars, enemyVars, saveVars, levelVars, updateVars, damageVars, hoverVars, reloadVars, pickupVars, inputVars, aiVars, crumbleVars, recordsVars, stunVars, gameVars, freezeVars, jumpVars, eventVars, orderVars, layerVars, terminalVars>>
notPlayer == <<worldVars, boxVars, trigVars, gridVars, rayVars, fallVars, enemyVars, saveVars, levelVars, updateVars, damageVars, hoverVars, reloadVars, pickupVars, inputVars, aiVars, crumbleVars, recordsVars, stunVars, gameVars, freezeVars, jumpVars, eventVars, orderVars, layerVars, terminalVars>>
notGrid == <<worldVars, boxVars, trigVars, playerVars, rayVars, fallVars, enemyVars, saveVars, levelVars, updateVars, damageVars, hoverVars, reloadVars, pickupVars, inputVars, aiVars, crumbleVars, recordsVars, stunVars, gameVars, freezeVars, jumpVars, eventVars, orderVars, layerVars, terminalVars>>
notRay == <<worldVars, boxVars, trigVars, playerVars, gridVars, fallVars, enemyVars, saveVars, levelVars, updateVars, damageVars, hoverVars, reloadVars, pickupVars, inputVars, aiVars, crumbleVars, recordsVars, stunVars, gameVars, freezeVars, jumpVars, eventVars, orderVars, layerVars, terminalVars>>
notFall == <<worldVars, boxVars, trigVars, playerVars, gridVars, rayVars, enemyVars, saveVars, levelVars, updateVars, damageVars, hoverVars, reloadVars, pickupVars, inputVars, aiVars, crumbleVars, recordsVars, stunVars, gameVars, freezeVars, jumpVars, eventVars, orderVars, layerVars, terminalVars>>
notEnemy == <<worldVars, boxVars, trigVars, playerVars, gridVars, rayVars, fallVars, saveVars, levelVars, updateVars, damageVars, hoverVars, reloadVars, pickupVars, inputVars, aiVars, crumbleVars, recordsVars, stunVars, gameVars, freezeVars, jumpVars, eventVars, orderVars, layerVars, terminalVars>>
notSave == <<worldVars, boxVars, trigVars, playerVars, gridVars, rayVars, fallVars, enemyVars, levelVars, updateVars, damageVars, hoverVars, reloadVars, pickupVars, inputVars, aiVars, crumbleVars, recordsVars, stunVars, gameVars, freezeVars, jumpVars, eventVars, orderVars, layerVars, terminalVars>>
notLevel == <<worldVars, boxVars, trigVars, playerVars, gridVars, rayVars, fallVars, enemyVars, saveVars, updateVars, damageVars, hoverVars, reloadVars, pickupVars, inputVars, aiVars, crumbleVars, recordsVars, stunVars, gameVars, freezeVars, jumpVars, eventVars, orderVars, layerVars, terminalVars>>
notUpdate == <<worldVars, boxVars, trigVars, playerVars, gridVars, rayVars, fallVars, enemyVars, saveVars, levelVars, damageVars, hoverVars, reloadVars, pickupVars, inputVars, aiVars, crumbleVars, recordsVars, stunVars, gameVars, freezeVars, jumpVars, eventVars, orderVars, layerVars, terminalVars>>
notDamage == <<worldVars, boxVars, trigVars, playerVars, gridVars, rayVars, fallVars, enemyVars, saveVars, levelVars, updateVars, hoverVars, reloadVars, pickupVars, inputVars, aiVars, crumbleVars, recordsVars, stunVars, gameVars, freezeVars, jumpVars, eventVars, orderVars, layerVars, terminalVars>>
notHover == <<worldVars, boxVars, trigVars, playerVars, gridVars, rayVars, fallVars, enemyVars, saveVars, levelVars, updateVars, damageVars, reloadVars, pickupVars, inputVars, aiVars, crumbleVars, recordsVars, stunVars, gameVars, freezeVars, jumpVars, eventVars, orderVars, layerVars, terminalVars>>
notReload == <<worldVars, boxVars, trigVars, playerVars, gridVars, rayVars, fallVars, enemyVars, saveVars, levelVars, updateVars, damageVars, hoverVars, pickupVars, inputVars, aiVars, crumbleVars, recordsVars, stunVars, gameVars, freezeVars, jumpVars, eventVars, orderVars, layerVars, terminalVars>>
notPickup == <<worldVars, boxVars, trigVars, playerVars, gridVars, rayVars, fallVars, enemyVars, saveVars, levelVars, updateVars, damageVars, hoverVars, reloadVars, inputVars, aiVars, crumbleVars, recordsVars, stunVars, gameVars, freezeVars, jumpVars, eventVars, orderVars, layerVars, terminalVars>>
notInput == <<worldVars, boxVars, trigVars, playerVars, gridVars, rayVars, fallVars, enemyVars, saveVars, levelVars, updateVars, damageVars, hoverVars, reloadVars, pickupVars, aiVars, crumbleVars, recordsVars, stunVars, gameVars, freezeVars, jumpVars, eventVars, orderVars, layerVars, terminalVars>>
notAi == <<worldVars, boxVars, trigVars, playerVars, gridVars, rayVars, fallVars, enemyVars, saveVars, levelVars, updateVars, damageVars, hoverVars, reloadVars, pickupVars, inputVars, crumbleVars, recordsVars, stunVars, gameVars, freezeVars, jumpVars, eventVars, orderVars, layerVars, terminalVars>>
notCrumble == <<worldVars, boxVars, trigVars, playerVars, gridVars, rayVars, fallVars, enemyVars, saveVars, levelVars, updateVars, damageVars, hoverVars, reloadVars, pickupVars, inputVars, aiVars, recordsVars, stunVars, gameVars, freezeVars, jumpVars, eventVars, orderVars, layerVars, terminalVars>>
notRecords == <<worldVars, boxVars, trigVars, playerVars, gridVars, rayVars, fallVars, enemyVars, saveVars, levelVars, updateVars, damageVars, hoverVars, reloadVars, pickupVars, inputVars, aiVars, crumbleVars, stunVars, gameVars, freezeVars, jumpVars, eventVars, orderVars, layerVars, terminalVars>>
notStun == <<worldVars, boxVars, trigVars, playerVars, gridVars, rayVars, fallVars, enemyVars, saveVars, levelVars, updateVars, damageVars, hoverVars, reloadVars, pickupVars, inputVars, aiVars, crumbleVars, recordsVars, gameVars, freezeVars, jumpVars, eventVars, orderVars, layerVars, terminalVars>>
notGame == <<worldVars, boxVars, trigVars, playerVars, gridVars, rayVars, fallVars, enemyVars, saveVars, levelVars, updateVars, damageVars, hoverVars, reloadVars, pickupVars, inputVars, aiVars, crumbleVars, recordsVars, stunVars, freezeVars, jumpVars, eventVars, orderVars, layerVars, terminalVars>>
notFreeze == <<worldVars, boxVars, trigVars, playerVars, gridVars, rayVars, fallVars, enemyVars, saveVars, levelVars, updateVars, damageVars, hoverVars, reloadVars, pickupVars, inputVars, aiVars, crumbleVars, recordsVars, stunVars, gameVars, jumpVars, eventVars, orderVars, layerVars, terminalVars>>
notJump == <<worldVars, boxVars, trigVars, playerVars, gridVars, rayVars, fallVars, enemyVars, saveVars, levelVars, updateVars, damageVars, hoverVars, reloadVars, pickupVars, inputVars, aiVars, crumbleVars, recordsVars, stunVars, gameVars, freezeVars, eventVars, orderVars, layerVars, terminalVars>>
notEvent == <<worldVars, boxVars, trigVars, playerVars, gridVars, rayVars, fallVars, enemyVars, saveVars, levelVars, updateVars, damageVars, hoverVars, reloadVars, pickupVars, inputVars, aiVars, crumbleVars, recordsVars, stunVars, gameVars, freezeVars, jumpVars, orderVars, layerVars, terminalVars>>
notOrder == <<worldVars, boxVars, trigVars, playerVars, gridVars, rayVars, fallVars, enemyVars, saveVars, levelVars, updateVars, damageVars, hoverVars, reloadVars, pickupVars, inputVars, aiVars, crumbleVars, recordsVars, stunVars, gameVars, freezeVars, jumpVars, eventVars, layerVars, terminalVars>>
notLayer == <<worldVars, boxVars, trigVars, playerVars, gridVars, rayVars, fallVars, enemyVars, saveVars, levelVars, updateVars, damageVars, hoverVars, reloadVars, pickupVars, inputVars, aiVars, crumbleVars, recordsVars, stunVars, gameVars, freezeVars, jumpVars, eventVars, orderVars, terminalVars>>
notTerminal == <<worldVars, boxVars, trigVars, playerVars, gridVars, rayVars, fallVars, enemyVars, saveVars, levelVars, updateVars, damageVars, hoverVars, reloadVars, pickupVars, inputVars, aiVars, crumbleVars, recordsVars, stunVars, gameVars, freezeVars, jumpVars, eventVars, orderVars, layerVars>>

(***************************************************************************)
(* Objects.  An object is a reference; its layer and persistent fields are *)
(* fixed at construction.                                                  *)
(***************************************************************************)
Objs == 1..NObj

\* obj.layer: tile colliders set 'tiles', nothing else sets it (-> 'entities');
\* object 3 stands for a caller-made object placed on 'background'.
ObjLayer(o) == IF o = 1 THEN "entities" ELSE IF o = 2 THEN "tiles" ELSE
               IF o = 3 THEN "background" ELSE "entities"

\* obj.persistent (read by clearLevel)
Persistent(o) == o = 2

\* World.setupDefaultLayers: the Map's insertion order
LayerOrder == <<"background", "tiles", "platforms", "entities",
                "player", "projectiles", "effects", "ui">>
LayerNames == {LayerOrder[i] : i \in 1..Len(LayerOrder)}

SeqSet(s) == {s[i] : i \in 1..Len(s)}

\* Array.prototype.indexOf, 0 for -1
IndexOf(s, o) == IF o \in SeqSet(s)
                 THEN CHOOSE i \in 1..Len(s) : s[i] = o /\ \A j \in 1..(i-1) : s[j] # o
                 ELSE 0

\* Array.prototype.splice(index, 1)
Splice(s, i) == [j \in 1..(Len(s)-1) |-> IF j < i THEN s[j] ELSE s[j+1]]

\* World.addObjectToLayer: the layer's list after the push; a layer that is a
\* bare tile array has no .objects, the push throws.
AddToLayerThrows(al, o) == ObjLayer(o) \in al
addObjectToLayer(ls, o) ==
    IF ObjLayer(o) \in LayerNames
    THEN [ls EXCEPT ![ObjLayer(o)] = Append(@, o)]
    ELSE ls

\* World.removeObjectFromLayer: walks the layers in Map order, stops at the
\* first list that holds the object; reading .objects of a tile array throws.
RECURSIVE removeFromLayerAt(_, _, _, _)
removeFromLayerAt(ls, al, o, i) ==
    IF i > Len(LayerOrder) THEN [layers |-> ls, threw |-> FALSE]
    ELSE IF LayerOrder[i] \in al THEN [layers |-> ls, threw |-> TRUE]
    ELSE IF IndexOf(ls[LayerOrder[i]], o) # 0
         THEN [layers |-> [ls EXCEPT ![LayerOrder[i]] = Splice(@, IndexOf(@, o))],
               threw |-> FALSE]
         ELSE removeFromLayerAt(ls, al, o, i + 1)
removeObjectFromLayer(ls, al, o) == removeFromLayerAt(ls, al, o, 1)

\* processObjectChanges, first loop: push every pending object
RECURSIVE addLoop(_, _, _, _)
addLoop(go, ls, al, pend) ==
    IF pend = <<>> THEN [go |-> go, layers |-> ls, threw |-> FALSE]
    ELSE IF AddToLayerThrows(al, Head(pend))
         THEN [go |-> Append(go, Head(pend)), layers |-> ls, threw |-> TRUE]
         ELSE addLoop(Append(go, Head(pend)), addObjectToLayer(ls, Head(pend)),
                      al, Tail(pend))

\* processObjectChanges, second loop: splice every pending removal
RECURSIVE removeLoop(_, _, _, _)
removeLoop(go, ls, al, pend) ==
    IF pend = <<>> THEN [go |-> go, layers |-> ls, threw |-> FALSE]
    ELSE IF IndexOf(go, Head(pend)) = 0
         THEN removeLoop(go, ls, al, Tail(pend))
         ELSE LET r == removeObjectFromLayer(ls, al, Head(pend))
                  go2 == Splice(go, IndexOf(go, Head(pend)))
              IN  IF r.threw THEN [go |-> go2, layers |-> ls, threw |-> TRUE]
                  ELSE removeLoop(go2, r.layers, al, Tail(pend))

\* processObjectChanges, last statement: drop the destroyed objects
NoFilter(go, d) == go
FilterDestroyed(go, d) == SelectSeq(go, LAMBDA o : o \notin d)

\* processObjectChanges without the two assignments that empty the lists
processKeepPending(go, ls, al, ta, tr, d) ==
    LET a == addLoop(go, ls, al, ta)
        r == removeLoop(a.go, a.layers, al, tr)
    IN  [go |-> FilterDestroyed(r.go, d), layers |-> r.layers,
         toAdd |-> ta, toRemove |-> tr, threw |-> a.threw \/ r.threw]

\* World.processObjectChanges as a whole: the resulting fields and whether
\* it threw (a throw leaves the fields as they were at the throwing statement)
processObjectChanges(go, ls, al, ta, tr, d) ==
    LET a == addLoop(go, ls, al, ta) IN
    IF a.threw
    THEN [go |-> a.go, layers |-> a.layers, toAdd |-> ta, toRemove |-> tr, threw |-> TRUE]
    ELSE LET r == removeLoop(a.go, a.layers, al, tr) IN
         IF r.threw
         THEN [go |-> r.go, layers |-> r.layers, toAdd |-> <<>>, toRemove |-> tr,
               threw |-> TRUE]
         ELSE [go |-> FilterDestroyed(r.go, d), layers |-> r.layers,
               toAdd |-> <<>>, toRemove |-> <<>>, threw |-> FALSE]


(***************************************************************************)
(* World: construction.                                                    *)
(***************************************************************************)
WorldInit ==
    /\ gameObjects = <<>>
    /\ toAdd = <<>>
    /\ toRemove = <<>>
    /\ layers = [n \in LayerNames |-> <<>>]
    /\ arrayLayers = {}
    /\ destroyed = {}
    /\ wpaused = FALSE
    /\ pc = "idle"
    /\ physObjects = <<>>
    /\ frame = 0
    /\ ops = 0
    /\ addedNow = {}
    /\ addedFresh = {}
    /\ addedPrev = {}
    /\ destroyedNow = {}
    /\ destroyedPrev = {}
    /\ destroyedOld = {}
    /\ sweptRemove = {}
    /\ ranUpdate = FALSE
    /\ sinceClear = [cleared |-> FALSE, added |-> {}]

\* Places from which game code can call into the World: between frames
\* (timers, UI handlers), from an object's update, from a collision callback.
Callable == pc \in {"idle", "update", "physics"}

\* World.addObject pushes on the pending list
AddNow(go, ta, o) == [go |-> Append(go, o), toAdd |-> ta]
addObject(go, ta, o) == [go |-> go, toAdd |-> Append(ta, o)]

CallAddObject(o) ==
    /\ Callable
    /\ ops < MaxOps
    /\ Len(toAdd) < MaxQueue
    /\ gameObjects' = addObject(gameObjects, toAdd, o).go
    /\ toAdd' = addObject(gameObjects, toAdd, o).toAdd
    /\ ops' = ops + 1
    /\ addedNow' = IF pc = "update" THEN addedNow \cup {o} ELSE addedNow
    /\ addedFresh' = IF pc = "update" /\ o \notin SeqSet(gameObjects)
                     THEN addedFresh \cup {o} ELSE addedFresh
    /\ UNCHANGED <<toRemove, layers, arrayLayers, destroyed, wpaused, pc,
                   physObjects, frame, addedPrev, destroyedNow, destroyedPrev, destroyedOld,
                   sweptRemove, ranUpdate>>
    /\ sinceClear' = [sinceClear EXCEPT !.added = @ \cup {o}]
    /\ UNCHANGED notWorld

\* World.removeObject: pending-remove list without duplicates
removeObject(tr, o) == IF o \in SeqSet(tr) THEN tr ELSE Append(tr, o)

CallRemoveObject(o) ==
    /\ Callable
    /\ ops < MaxOps
    /\ Len(toRemove) < MaxQueue
    /\ toRemove' = removeObject(toRemove, o)
    /\ ops' = ops + 1
    /\ UNCHANGED <<gameObjects, toAdd, layers, arrayLayers, destroyed, wpaused,
                   pc, physObjects, frame, addedNow, addedFresh, addedPrev,
                   destroyedNow, destroyedPrev, destroyedOld, sweptRemove, ranUpdate>>
    /\ UNCHANGED sinceClear
    /\ UNCHANGED notWorld

\* GameObject.destroy: sets the flags, does not touch the World
CallDestroy(o) ==
    /\ Callable
    /\ ops < MaxOps
    /\ o \notin destroyed
    /\ destroyed' = destroyed \cup {o}
    /\ ops' = ops + 1
    /\ destroyedNow' = IF pc \in {"update", "physics"} /\ o \in SeqSet(gameObjects)
                       THEN destroyedNow \cup {o} ELSE destroyedNow
    /\ UNCHANGED <<gameObjects, toAdd, toRemove, layers, arrayLayers, wpaused,
                   pc, physObjects, frame, addedNow, addedFresh, addedPrev,
                   destroyedPrev, destroyedOld, sweptRemove, ranUpdate>>
    /\ UNCHANGED sinceClear
    /\ UNCHANGED notWorld

\* World.pause / World.resume
Pause ==
    /\ pc = "idle"
    /\ ~wpaused
    /\ wpaused' = TRUE
    /\ UNCHANGED <<gameObjects, toAdd, toRemove, layers, arrayLayers, destroyed,
                   pc, physObjects, frame, ops, addedNow, addedFresh, addedPrev,
                   destroyedNow, destroyedPrev, destroyedOld, sweptRemove, ranUpdate>>
    /\ UNCHANGED sinceClear
    /\ UNCHANGED notWorld

Resume ==
    /\ pc = "idle"
    /\ wpaused
    /\ wpaused' = FALSE
    /\ UNCHANGED <<gameObjects, toAdd, toRemove, layers, arrayLayers, destroyed,
                   pc, physObjects, frame, ops, addedNow, addedFresh, addedPrev,
                   destroyedNow, destroyedPrev, destroyedOld, sweptRemove, ranUpdate>>
    /\ UNCHANGED sinceClear
    /\ UNCHANGED notWorld

\* Game.update, first half: World.update up to the object updates.  A paused
\* world returns at once and Game.update goes on to Physics.update.  A throw
\* leaves Game.update and gameLoop, no further frame is scheduled.
WorldUpdate ==
    /\ pc = "idle"
    /\ frame < MaxFrames
    /\ frame' = frame + 1
    /\ IF wpaused
       THEN /\ pc' = "physics"
            /\ physObjects' = gameObjects
            /\ ranUpdate' = FALSE
            /\ UNCHANGED <<gameObjects, toAdd, toRemove, layers, destroyedOld,
                           sweptRemove>>
       ELSE LET r == processObjectChanges(gameObjects, layers, arrayLayers,
                                          toAdd, toRemove, destroyed)
            IN  /\ gameObjects' = r.go
                /\ layers' = r.layers
                /\ toAdd' = r.toAdd
                /\ toRemove' = r.toRemove
                /\ pc' = IF r.threw THEN "crashed" ELSE "update"
                /\ destroyedOld' = destroyed
                /\ sweptRemove' = SeqSet(toRemove)
                /\ ranUpdate' = TRUE
                /\ UNCHANGED physObjects
    /\ UNCHANGED <<arrayLayers, destroyed, wpaused, ops, addedNow, addedFresh,
                   addedPrev, destroyedNow, destroyedPrev>>
    /\ UNCHANGED sinceClear
    /\ UNCHANGED notWorld

\* Game.update, second half: World.update returns, Physics.update starts on
\* world.gameObjects
PhysicsStart ==
    /\ pc = "update"
    /\ pc' = "physics"
    /\ physObjects' = gameObjects
    /\ UNCHANGED <<gameObjects, toAdd, toRemove, layers, arrayLayers, destroyed,
                   wpaused, frame, ops, addedNow, addedFresh, addedPrev, destroyedNow,
                   destroyedPrev, destroyedOld, sweptRemove, ranUpdate>>
    /\ UNCHANGED sinceClear
    /\ UNCHANGED notWorld

\* Physics.update returns and Game.update completes
FrameDone ==
    /\ pc = "physics"
    /\ pc' = "done"
    /\ UNCHANGED <<gameObjects, toAdd, toRemove, layers, arrayLayers, destroyed,
                   wpaused, physObjects, frame, ops, addedNow, addedFresh,
                   addedPrev, destroyedNow, destroyedPrev, destroyedOld, sweptRemove, ranUpdate>>
    /\ UNCHANGED sinceClear
    /\ UNCHANGED notWorld

\* gameLoop waits for the next animation frame
NextFrame ==
    /\ pc = "done"
    /\ pc' = "idle"
    /\ addedPrev' = addedFresh
    /\ addedNow' = {}
    /\ addedFresh' = {}
    /\ destroyedPrev' = destroyedNow
    /\ destroyedNow' = {}
    /\ UNCHANGED <<gameObjects, toAdd, toRemove, layers, arrayLayers, destroyed,
                   wpaused, physObjects, frame, ops, destroyedOld, sweptRemove,
                   ranUpdate>>
    /\ UNCHANGED sinceClear
    /\ UNCHANGED notWorld

\* World.clearLevel: keeps the persistent objects; throws on a layer that is
\* a tile array (after gameObjects has been filtered)
ClearLevelThrows(al) == al \cap LayerNames # {}
clearLevelObjects(go) == SelectSeq(go, LAMBDA o : Persistent(o))
clearLevelLayers(ls, al) ==
    IF ClearLevelThrows(al) THEN ls
    ELSE [n \in LayerNames |-> SelectSeq(ls[n], LAMBDA o : Persistent(o))]

\* World.loadLevel: clearLevel, then the world properties, then the tile
\* layers are stored in the layer Map under 'background', 'collision' and
\* 'foreground' as bare arrays.  Checkpoints and entities are not part of this
\* specification's levels.
LoadLevel ==
    /\ pc = "idle"
    /\ gameObjects' = clearLevelObjects(gameObjects)
    /\ layers' = clearLevelLayers(layers, arrayLayers)
    /\ arrayLayers' = IF ClearLevelThrows(arrayLayers) THEN arrayLayers
                      ELSE arrayLayers \cup {"background", "collision", "foreground"}
    /\ UNCHANGED <<toAdd, toRemove, destroyed, wpaused, pc, physObjects, frame,
                   ops, addedNow, addedFresh, addedPrev, destroyedNow,
                   destroyedPrev, destroyedOld, sweptRemove, ranUpdate>>
    /\ sinceClear' = IF ClearLevelThrows(arrayLayers) THEN sinceClear
                     ELSE [cleared |-> TRUE, added |-> {}]
    /\ UNCHANGED notWorld

WorldNext ==
    \/ \E o \in Objs : CallAddObject(o)
    \/ \E o \in Objs : CallRemoveObject(o)
    \/ \E o \in Objs : CallDestroy(o)
    \/ Pause
    \/ Resume
    \/ WorldUpdate
    \/ PhysicsStart
    \/ FrameDone
    \/ NextFrame
    \/ LoadLevel

(***************************************************************************)
(* Physics: narrow phase and resolution of one candidate pair.             *)
(* Positions and velocities are kept in 1/Scale world units so that the    *)
(* 80% correction, the mass ratios and the friction coefficient 0.8 are    *)
(* exact.                                                                  *)
(***************************************************************************)
Scale == 30
Boxes == {"A", "B"}

Min(a, b) == IF a < b THEN a ELSE b
Max(a, b) == IF a > b THEN a ELSE b
Abs(a) == IF a < 0 THEN -a ELSE a
Sign(a) == IF a > 0 THEN 1 ELSE IF a < 0 THEN -1 ELSE 0

\* GameObject.getBounds without custom collision bounds: position and size
BoxW == BoxSize * Scale

\* extent of the overlap of two boxes on each axis
OverlapX(pa, pb) == Min(pa.x + BoxW, pb.x + BoxW) - Max(pa.x, pb.x)
OverlapY(pa, pb) == Min(pa.y + BoxW, pb.y + BoxW) - Max(pa.y, pb.y)

\* Physics.checkAABBCollision: null, or the normal and penetration along the
\* axis of smaller overlap
NoHit == [hit |-> FALSE, nx |-> 0, ny |-> 0, pen |-> 0]
checkAABBCollision(pa, pb) ==
    IF \/ pa.x + BoxW <= pb.x
       \/ pb.x + BoxW <= pa.x
       \/ pa.y + BoxW <= pb.y
       \/ pb.y + BoxW <= pa.y
    THEN NoHit
    ELSE IF OverlapX(pa, pb) < OverlapY(pa, pb)
         THEN [hit |-> TRUE, nx |-> IF pa.x < pb.x THEN -1 ELSE 1, ny |-> 0,
               pen |-> OverlapX(pa, pb)]
         ELSE [hit |-> TRUE, nx |-> 0, ny |-> IF pa.y < pb.y THEN -1 ELSE 1,
               pen |-> OverlapY(pa, pb)]

\* Physics.positionalCorrection: 80% of the penetration along the normal,
\* A moved against it and B along it, shared by the other box's mass
Correction(c) == (c.pen * 8) \div 10
positionalCorrection(pos, c, mass, solid) ==
    LET total == mass["A"] + mass["B"]
        dA == (Correction(c) * mass["B"]) \div total
        dB == (Correction(c) * mass["A"]) \div total
    IN  IF solid["A"] /\ solid["B"]
        THEN [A |-> [x |-> pos["A"].x - c.nx * dA, y |-> pos["A"].y - c.ny * dA],
              B |-> [x |-> pos["B"].x + c.nx * dB, y |-> pos["B"].y + c.ny * dB]]
        ELSE IF solid["A"]
        THEN [pos EXCEPT !["B"] = [x |-> @.x + c.nx * Correction(c),
                                   y |-> @.y + c.ny * Correction(c)]]
        ELSE IF solid["B"]
        THEN [pos EXCEPT !["A"] = [x |-> @.x - c.nx * Correction(c),
                                   y |-> @.y - c.ny * Correction(c)]]
        ELSE pos

\* 1 / (1/mA + 1/mB) applied to v: v * mA * mB / (mA + mB)
Reduced(v, mass) == (v * mass["A"] * mass["B"]) \div (mass["A"] + mass["B"])

\* Physics.applyFriction for an axis-aligned normal: the tangent is the unit
\* vector of the relative velocity's component across the normal; the
\* coefficient is sqrt(0.8 * 0.8), the default friction of both boxes.
applyFriction(vel, c, mass, solid, normalImpulse) ==
    LET rx == vel["B"].x - vel["A"].x
        ry == vel["B"].y - vel["A"].y
        rn == rx * c.nx + ry * c.ny
        tx == rx - c.nx * rn
        ty == ry - c.ny * rn
        \* magnitudeSquared < 0.001 in world units
        ux == Sign(tx)
        uy == Sign(ty)
        fi == -Reduced(rx * ux + ry * uy, mass)
        fm == (Abs(normalImpulse) * 8) \div 10
        f  == IF Abs(fi) < fm THEN fi ELSE -fm * Sign(fi)
    IN  IF tx = 0 /\ ty = 0 THEN vel
        ELSE [A |-> IF solid["A"]
                    THEN [x |-> vel["A"].x - (ux * f) \div mass["A"],
                          y |-> vel["A"].y - (uy * f) \div mass["A"]]
                    ELSE vel["A"],
              B |-> IF solid["B"]
                    THEN [x |-> vel["B"].x + (ux * f) \div mass["B"],
                          y |-> vel["B"].y + (uy * f) \div mass["B"]]
                    ELSE vel["B"]]

\* Physics.resolveVelocity with restitution 0 (the default bounciness) and
\* no 'static' tag on either box
resolveVelocity(vel, c, mass, solid) ==
    LET rx == vel["B"].x - vel["A"].x
        ry == vel["B"].y - vel["A"].y
        vn == rx * c.nx + ry * c.ny
        j  == Reduced(-vn, mass)
        v1 == [A |-> IF solid["A"]
                     THEN [x |-> vel["A"].x - (c.nx * j) \div mass["A"],
                           y |-> vel["A"].y - (c.ny * j) \div mass["A"]]
                     ELSE vel["A"],
               B |-> IF solid["B"]
                     THEN [x |-> vel["B"].x + (c.nx * j) \div mass["B"],
                           y |-> vel["B"].y + (c.ny * j) \div mass["B"]]
                     ELSE vel["B"]]
    IN  IF vn > 0 THEN vel ELSE applyFriction(v1, c, mass, solid, j)

\* resolveCollision with the trigger test left out
resolveAsSolid(pos, vel, c, mass, solid, trig) ==
    IF ~solid["A"] /\ ~solid["B"] THEN [pos |-> pos, vel |-> vel]
    ELSE [pos |-> positionalCorrection(pos, c, mass, solid),
          vel |-> resolveVelocity(vel, c, mass, solid)]

\* Physics.resolveCollision: a trigger pair only gets its callbacks; a pair
\* without a solid box is skipped; otherwise correction, then velocity
resolveCollision(pos, vel, c, mass, solid, trig) ==
    IF trig["A"] \/ trig["B"] THEN [pos |-> pos, vel |-> vel]
    ELSE IF ~solid["A"] /\ ~solid["B"] THEN [pos |-> pos, vel |-> vel]
    ELSE [pos |-> positionalCorrection(pos, c, mass, solid),
          vel |-> resolveVelocity(vel, c, mass, solid)]

Offsets == (-MaxOffset)..MaxOffset
Speeds == (-MaxSpeed)..MaxSpeed

\* two boxes somewhere near each other, any flags, masses 1 or 2
BoxInit ==
    /\ bpos \in {[A |-> [x |-> 0, y |-> 0], B |-> [x |-> dx * Scale, y |-> dy * Scale]] :
                   dx \in Offsets, dy \in Offsets}
    /\ bvel \in {[A |-> [x |-> 0, y |-> 0], B |-> [x |-> vx * Scale, y |-> vy * Scale]] :
                   vx \in Speeds, vy \in Speeds}
    /\ bmass \in {[A |-> 1, B |-> 1], [A |-> 1, B |-> 2], [A |-> 2, B |-> 1]}
    /\ bsolid \in [Boxes -> BOOLEAN]
    /\ btrigger \in [Boxes -> BOOLEAN]
    /\ bphase = "overlap"
    /\ bhit = NoHit
    /\ bpos0 = bpos

\* one pass of detectCollisions' narrow phase and resolveCollisions over the
\* pair (A, B)
ResolvePass ==
    /\ bphase = "overlap"
    /\ LET c == checkAABBCollision(bpos["A"], bpos["B"])
           r == resolveCollision(bpos, bvel, c, bmass, bsolid, btrigger)
       IN  /\ bhit' = c
           /\ bpos' = IF c.hit THEN r.pos ELSE bpos
           /\ bvel' = IF c.hit THEN r.vel ELSE bvel
    /\ bpos0' = bpos
    /\ bphase' = "resolved"
    /\ UNCHANGED <<bmass, bsolid, btrigger>>
    /\ UNCHANGED notBox

BoxNext == ResolvePass

(***************************************************************************)
(* Physics.update with sub-steps over a trigger and a moving object.  Both *)
(* are default-size boxes on one row of grid cells with gravityScale 0;    *)
(* the trigger stays at the start of the second cell.                      *)
(***************************************************************************)
SubSteps == 4
CellSize == 64
ObjWidth == 32
TrigX == CellSize
MoveSpeeds == {-StepLen, 0, StepLen}

\* Math.floor(v / cellSize)
Cell(v) == v \div CellSize

\* SpatialGrid.getCellsForBounds, on the row both boxes are in
CellsOf(x) == Cell(x)..Cell(x + ObjWidth)

\* SpatialGrid.addObjects then getPotentialCollisionPairs: the pair is a
\* candidate when some cell holds both
ShareCell(x) == CellsOf(x) \cap CellsOf(TrigX) # {}

\* Physics.checkAABBCollision on the row: the boxes overlap
TrigOverlap(x) == ~(x + ObjWidth <= TrigX \/ TrigX + ObjWidth <= x)

\* Physics.handleTriggerCollision: the trigger's callback runs when the
\* instance has one
CallsEveryOverlap(hit, cb, n) == IF hit /\ cb THEN n + 1 ELSE n
handleTriggerCollision(hit, cb, n) == CallsEveryOverlap(hit, cb, n)

\* the count restarts when a move makes the boxes overlap again
CallsAfterMove(x0, x1, n) == IF ~TrigOverlap(x0) /\ TrigOverlap(x1) THEN 0 ELSE n

TrigInit ==
    /\ mx \in {0, TrigX}
    /\ mv = 0
    /\ tshare = FALSE
    /\ tsub = 0
    /\ tphase = "world"
    /\ tcalls = 0
    /\ tframes = 0
    /\ thasCb \in BOOLEAN

\* World.update: the object's update integrates its damped velocity
\* (GameObject.updatePhysics, friction 0.8) and its own logic sets the
\* velocity for the frame
MoverUpdate(v) ==
    /\ tphase = "world"
    /\ tframes < MaxTrigFrames
    /\ LET x1 == mx + (SubSteps * mv * 8) \div 10
       IN  /\ x1 \in 0..MaxX
           /\ mx' = x1
           /\ tcalls' = CallsAfterMove(mx, x1, tcalls)
    /\ mv' = v
    /\ tframes' = tframes + 1
    /\ tphase' = "grid"
    /\ UNCHANGED <<tshare, tsub, thasCb>>
    /\ UNCHANGED notTrig

\* Physics.update up to the sub-steps: gravity does not apply, the grid is
\* rebuilt from the present positions
PhysicsBegin ==
    /\ tphase = "grid"
    /\ tshare' = ShareCell(mx)
    /\ tsub' = 0
    /\ tphase' = "physics"
    /\ UNCHANGED <<mx, mv, tcalls, tframes, thasCb>>
    /\ UNCHANGED notTrig

\* Physics.physicsSubStep: detectCollisions on the frame's grid,
\* resolveCollisions (the trigger branch), integratePosition
SubStep ==
    /\ tphase = "physics"
    /\ tsub < SubSteps
    /\ tcalls < MaxCalls
    /\ mx + mv \in 0..MaxX
    /\ LET hit == tshare /\ TrigOverlap(mx)
           n == handleTriggerCollision(hit, thasCb, tcalls)
       IN  tcalls' = CallsAfterMove(mx, mx + mv, n)
    /\ mx' = mx + mv
    /\ tsub' = tsub + 1
    /\ UNCHANGED <<mv, tshare, tphase, tframes, thasCb>>
    /\ UNCHANGED notTrig

\* Physics.update returns
PhysicsEnd ==
    /\ tphase = "physics"
    /\ tsub = SubSteps
    /\ tphase' = "world"
    /\ UNCHANGED <<mx, mv, tshare, tsub, tcalls, tframes, thasCb>>
    /\ UNCHANGED notTrig

TrigNext ==
    \/ \E v \in MoveSpeeds : MoverUpdate(v)
    \/ PhysicsBegin
    \/ SubStep
    \/ PhysicsEnd

(***************************************************************************)
(* Player: the ability table, the ability actions and the per-frame        *)
(* update.  Times are in frames of 1/60 s, velocities in 1/VScale units.   *)
(***************************************************************************)
VScale == 1000
BaseSpeed == 200
JumpForce == 400
\* coyoteTime and jumpBufferTime, 0.1 s
CoyoteFrames == 6
\* dash: distance 150 over duration 0.2 s
DashSpeed == 750
\* wallJump: force 350 at angle pi/4, 350 * cos(pi/4) rounded down
WallJumpSpeed == 247

AbilityNames == {"dash", "doubleJump", "tripleJump", "wallJump", "highJump"}

\* the properties setupDefaultAbilities passes for each ability: all locked,
\* level 0, and 'cooldown: 0' where a cooldown is given
AbilityProps(n) ==
    [enabled |-> FALSE, level |-> 0, cooldown |-> 0,
     maxJumps |-> IF n = "doubleJump" THEN 2 ELSE IF n = "tripleJump" THEN 3 ELSE 0,
     currentJumps |-> 0]

\* Player.addAbility: the descriptor literal, the passed properties spread
\* over it last; maxCooldown is 'properties.cooldown || 0'
MaxCooldownOf(props) == IF props.cooldown # 0 THEN props.cooldown ELSE 0
addAbility(props) ==
    [enabled |-> props.enabled, level |-> props.level,
     cooldown |-> props.cooldown, maxCooldown |-> MaxCooldownOf(props),
     maxJumps |-> props.maxJumps, currentJumps |-> props.currentJumps]

\* Player.hasAbility, Player.isAbilityCoolingDown
hasAbility(ab, n) == ab[n].enabled
isAbilityCoolingDown(ab, n) == ab[n].cooldown > 0

\* Player.startAbilityCooldown
startAbilityCooldown(ab, n) == [ab EXCEPT ![n].cooldown = ab[n].maxCooldown]

\* x * num / den on a scaled value, rounded towards zero
Frac(x, num, den) == Sign(x) * ((Abs(x) * num) \div den)

PlayerInit ==
    /\ pab = [n \in AbilityNames |-> addAbility(AbilityProps(n))]
    /\ pvel = [x |-> 0, y |-> 0]
    /\ pfacing = 1
    /\ pgrav = 10
    /\ pgrounded = FALSE
    /\ pjumpBuf = 0
    /\ plastGround = 0
    /\ ptimers = 0
    /\ pop = "new"
    /\ pcount = 0

\* Player.unlockAbility
UnlockAbility(n, lvl) ==
    /\ pcount < MaxPlayerOps
    /\ pab' = [pab EXCEPT ![n].enabled = TRUE, ![n].level = lvl]
    /\ pop' = "unlockAbility"
    /\ pcount' = pcount + 1
    /\ UNCHANGED <<pvel, pfacing, pgrav, pgrounded, pjumpBuf, plastGround, ptimers>>
    /\ UNCHANGED notPlayer

\* Player.performDash: dash velocity along the facing direction, gravity
\* off, a timer that restores it, the cooldown started; no check of 'enabled'
performDash(ab, vel, facing, grav, timers) ==
    [ab |-> startAbilityCooldown(ab, "dash"),
     vel |-> [x |-> facing * DashSpeed * VScale, y |-> 0],
     grav |-> 0, timers |-> timers + 1]

\* Player.performMultiJump
multiJumpForce(ab) ==
    IF hasAbility(ab, "highJump")
    THEN (JumpForce * 8 * 15 * VScale) \div 100
    ELSE (JumpForce * 8 * VScale) \div 10
performMultiJump(ab, vel) ==
    [ab |-> IF hasAbility(ab, "tripleJump")
            THEN [ab EXCEPT !["tripleJump"].currentJumps = @ + 1]
            ELSE IF hasAbility(ab, "doubleJump")
            THEN [ab EXCEPT !["doubleJump"].currentJumps = @ + 1]
            ELSE ab,
     vel |-> [vel EXCEPT !.y = -multiJumpForce(ab)]]

\* Player.performWallJump
performWallJump(vel, facing) ==
    [x |-> -facing * WallJumpSpeed * VScale, y |-> -WallJumpSpeed * VScale]

\* Player.performJump
performJump(ab, vel) ==
    [ab |-> [n \in AbilityNames |->
               IF n \in {"doubleJump", "tripleJump"} /\ hasAbility(ab, n)
               THEN [ab[n] EXCEPT !.currentJumps = 1] ELSE ab[n]],
     vel |-> [vel EXCEPT !.y = IF hasAbility(ab, "highJump")
                               THEN -((JumpForce * 15 * VScale) \div 10)
                               ELSE -(JumpForce * VScale)]]

\* Player.canMultiJump
canMultiJump(ab) ==
    IF hasAbility(ab, "tripleJump")
    THEN ab["tripleJump"].currentJumps < ab["tripleJump"].maxJumps
    ELSE IF hasAbility(ab, "doubleJump")
    THEN ab["doubleJump"].currentJumps < ab["doubleJump"].maxJumps
    ELSE FALSE

\* the ability methods called directly (they are public and check nothing)
CallPerformDash ==
    /\ pcount < MaxPlayerOps
    /\ LET r == performDash(pab, pvel, pfacing, pgrav, ptimers)
       IN  /\ pab' = r.ab
           /\ pvel' = r.vel
           /\ pgrav' = r.grav
           /\ ptimers' = r.timers
    /\ pop' = "performDash"
    /\ pcount' = pcount + 1
    /\ UNCHANGED <<pfacing, pgrounded, pjumpBuf, plastGround>>
    /\ UNCHANGED notPlayer

CallPerformMultiJump ==
    /\ pcount < MaxPlayerOps
    /\ pab' = performMultiJump(pab, pvel).ab
    /\ pvel' = performMultiJump(pab, pvel).vel
    /\ pop' = "performMultiJump"
    /\ pcount' = pcount + 1
    /\ UNCHANGED <<pfacing, pgrav, pgrounded, pjumpBuf, plastGround, ptimers>>
    /\ UNCHANGED notPlayer

CallPerformWallJump ==
    /\ pcount < MaxPlayerOps
    /\ pvel' = performWallJump(pvel, pfacing)
    /\ pop' = "performWallJump"
    /\ pcount' = pcount + 1
    /\ UNCHANGED <<pab, pfacing, pgrav, pgrounded, pjumpBuf, plastGround, ptimers>>
    /\ UNCHANGED notPlayer

\* the callback performDash handed to setTimeout
DashTimeout ==
    /\ ptimers > 0
    /\ ptimers' = ptimers - 1
    /\ pgrav' = 10
    /\ pop' = "dashTimeout"
    /\ UNCHANGED <<pab, pvel, pfacing, pgrounded, pjumpBuf, plastGround, pcount>>
    /\ UNCHANGED notPlayer

\* Player.updateAbilityCooldowns with deltaTime of one frame
updateAbilityCooldowns(ab) ==
    [n \in AbilityNames |->
        IF ab[n].cooldown > 0
        THEN [ab[n] EXCEPT !.cooldown = IF @ - 1 <= 0 THEN 0 ELSE @ - 1]
        ELSE ab[n]]

\* GameObject.update of the player for one frame: updatePhysics (friction
\* 0.15 on the velocity), then Player.onUpdate: cooldowns, timers, movement,
\* jump and ability input, updatePhysicsState.  move is the horizontal axis,
\* jd/jh are isActionDown/isActionPressed('jump'), dd is isActionDown('dash');
\* moveDown is not pressed.
PlayerUpdate(move, jd, jh, dd) ==
    /\ pcount < MaxPlayerOps
    /\ LET \* updatePhysics
           v0 == [x |-> Frac(pvel.x, 15, 100), y |-> Frac(pvel.y, 15, 100)]
           ab0 == updateAbilityCooldowns(pab)
           \* updateTimers
           lg0 == IF ~pgrounded THEN Min(plastGround + 1, CoyoteFrames) ELSE plastGround
           jb0 == IF pjumpBuf > 0 THEN pjumpBuf - 1 ELSE pjumpBuf
           \* handleMovementInput
           f1 == IF move # 0 THEN move ELSE pfacing
           v1 == [v0 EXCEPT !.x = IF move # 0 THEN move * BaseSpeed * VScale
                                  ELSE Frac(v0.x, 15, 100)]
           \* handleJumpInput; isOnWall is always false, so no wall jump here
           jb1 == IF jd THEN CoyoteFrames ELSE jb0
           ground == jb1 > 0 /\ (pgrounded \/ lg0 < CoyoteFrames)
           multi == ~ground /\ jd /\ ~pgrounded /\ canMultiJump(ab0)
           j == IF ground THEN performJump(ab0, v1)
                ELSE IF multi THEN performMultiJump(ab0, v1)
                ELSE [ab |-> ab0, vel |-> v1]
           jb2 == IF ground THEN 0 ELSE jb1
           lg2 == IF ground THEN CoyoteFrames ELSE lg0
           v2 == IF ~jh /\ j.vel.y < 0 THEN [j.vel EXCEPT !.y = Frac(@, 6, 10)] ELSE j.vel
           \* handleAbilityInput
           dash == dd /\ hasAbility(j.ab, "dash") /\ ~isAbilityCoolingDown(j.ab, "dash")
           d == IF dash THEN performDash(j.ab, v2, f1, pgrav, ptimers)
                ELSE [ab |-> j.ab, vel |-> v2, grav |-> pgrav, timers |-> ptimers]
           \* updatePhysicsState
           g3 == Abs(d.vel.y) < VScale
       IN  /\ pvel' = d.vel
           /\ pfacing' = f1
           /\ pgrav' = d.grav
           /\ ptimers' = d.timers
           /\ pgrounded' = g3
           /\ plastGround' = IF g3 THEN 0 ELSE lg2
           /\ pjumpBuf' = jb2
           /\ pab' = IF g3
                     THEN [n \in AbilityNames |->
                             IF n \in {"doubleJump", "tripleJump"} /\ hasAbility(d.ab, n)
                             THEN [d.ab[n] EXCEPT !.currentJumps = 0] ELSE d.ab[n]]
                     ELSE d.ab
    /\ pop' = "update"
    /\ pcount' = pcount + 1
    /\ UNCHANGED notPlayer

PlayerNext ==
    \/ \E n \in AbilityNames, lvl \in 1..MaxLevel : UnlockAbility(n, lvl)
    \/ CallPerformDash
    \/ CallPerformMultiJump
    \/ CallPerformWallJump
    \/ DashTimeout
    \/ \E move \in {-1, 0, 1}, jd \in BOOLEAN, jh \in BOOLEAN, dd \in BOOLEAN :
          PlayerUpdate(move, jd, jh, dd)

(***************************************************************************)
(* SpatialGrid: clear, addObjects and getPotentialCollisionPairs over      *)
(* objects on one row whose ids are either the auto-generated counter      *)
(* value or a string taken from level spawn data.                          *)
(***************************************************************************)
GObjs == 1..NGrid
GridXs == {0, 40, 128}

\* GameObject's constructor gives object o the id ++idCounter;
\* createEntityFromData and loadCheckpoints overwrite it with data.id, a
\* string such as 'start' or LevelData.generateId()'s 'id_...'
AutoId(o) == [num |-> TRUE, v |-> o]
SpawnId(o) == [num |-> FALSE, v |-> o]

\* ToNumber of a non-numeric string
NaN == [num |-> FALSE, v |-> 0]

\* Math.min and Math.max of two ids: NaN as soon as one is not a number
MathMin(a, b) == IF a.num /\ b.num THEN AutoId(Min(a.v, b.v)) ELSE NaN
MathMax(a, b) == IF a.num /\ b.num THEN AutoId(Max(a.v, b.v)) ELSE NaN

\* the pairKey template string
pairKey(a, b) == <<MathMin(a, b), MathMax(a, b)>>

\* SpatialGrid.addObject: push o on every cell its bounds touch, creating
\* the cell at the end of the Map when it is new
RECURSIVE addToCells(_, _, _, _)
addToCells(g, o, c, last) ==
    IF c > last THEN g
    ELSE LET has == \E i \in 1..Len(g) : g[i].key = c
             g1 == IF has
                   THEN [i \in 1..Len(g) |->
                           IF g[i].key = c
                           THEN [g[i] EXCEPT !.objs = Append(@, o)] ELSE g[i]]
                   ELSE Append(g, [key |-> c, objs |-> <<o>>])
         IN  addToCells(g1, o, c + 1, last)

\* SpatialGrid.addObjects: the active, not destroyed objects in list order
RECURSIVE addObjects(_, _, _, _)
addObjects(g, o, xs, dead) ==
    IF o > NGrid THEN g
    ELSE addObjects(IF o \in dead THEN g
                    ELSE addToCells(g, o, Cell(xs[o]), Cell(xs[o] + ObjWidth)),
                    o + 1, xs, dead)

\* the (i, j) loops of getPotentialCollisionPairs over one cell
RECURSIVE cellPairs(_, _, _)
cellPairs(objs, i, j) ==
    IF i > Len(objs) THEN <<>>
    ELSE IF j > Len(objs) THEN cellPairs(objs, i + 1, i + 2)
    ELSE <<<<objs[i], objs[j]>>>> \o cellPairs(objs, i, j + 1)

\* ... over all cells, in Map order
RECURSIVE gridPairs(_, _)
gridPairs(g, k) ==
    IF k > Len(g) THEN <<>>
    ELSE cellPairs(g[k].objs, 1, 2) \o gridPairs(g, k + 1)

\* the 'checked' set: a pair is pushed when its key is new
RECURSIVE dedupe(_, _, _, _)
dedupe(cands, k, checked, ids) ==
    IF k > Len(cands) THEN <<>>
    ELSE LET key == pairKey(ids[cands[k][1]], ids[cands[k][2]])
         IN  IF key \in checked
             THEN dedupe(cands, k + 1, checked, ids)
             ELSE <<cands[k]>> \o dedupe(cands, k + 1, checked \cup {key}, ids)

\* every cell's pairs, with no 'checked' set
allCellPairs(g, ids) == gridPairs(g, 1)

\* SpatialGrid.getPotentialCollisionPairs
getPotentialCollisionPairs(g, ids) == dedupe(gridPairs(g, 1), 1, {}, ids)

GridInit ==
    /\ gid \in [GObjs -> [num : BOOLEAN, v : GObjs]]
    /\ \A o \in GObjs : gid[o] \in {AutoId(o), SpawnId(o)}
    /\ gx \in [GObjs -> GridXs]
    /\ gdead = {}
    /\ grid = <<>>
    /\ gpairs = <<>>
    /\ gphase = "idle"

\* Physics.update: spatialGrid.clear()
GridClear ==
    /\ gphase = "idle"
    /\ grid' = <<>>
    /\ gphase' = "cleared"
    /\ UNCHANGED <<gid, gx, gdead, gpairs>>
    /\ UNCHANGED notGrid

\* Physics.update: spatialGrid.addObjects(world.gameObjects)
GridAddObjects ==
    /\ gphase = "cleared"
    /\ grid' = addObjects(grid, 1, gx, gdead)
    /\ gphase' = "filled"
    /\ UNCHANGED <<gid, gx, gdead, gpairs>>
    /\ UNCHANGED notGrid

\* Physics.detectCollisions: the broad phase
GridGetPairs ==
    /\ gphase = "filled"
    /\ gpairs' = getPotentialCollisionPairs(grid, gid)
    /\ gphase' = "paired"
    /\ UNCHANGED <<gid, gx, gdead, grid>>
    /\ UNCHANGED notGrid

\* between two frames an object is moved to another place on the row
GridMove(o, x) ==
    /\ gphase = "paired"
    /\ gx' = [gx EXCEPT ![o] = x]
    /\ gphase' = "idle"
    /\ UNCHANGED <<gid, gdead, grid, gpairs>>
    /\ UNCHANGED notGrid

\* ... or destroyed (GameObject.destroy sets the flag addObjects tests)
GridDestroy(o) ==
    /\ gphase = "paired"
    /\ o \notin gdead
    /\ gdead' = gdead \cup {o}
    /\ gphase' = "idle"
    /\ UNCHANGED <<gid, gx, grid, gpairs>>
    /\ UNCHANGED notGrid

GridNext ==
    \/ GridClear
    \/ GridAddObjects
    \/ GridGetPairs
    \/ \E o \in GObjs, x \in GridXs : GridMove(o, x)
    \/ \E o \in GObjs : GridDestroy(o)

(***************************************************************************)
(* Physics.raycast: a ray along the x axis against one ObjWidth-square     *)
(* box at (rbx, 0) that the spatial grid holds.                            *)
(***************************************************************************)
RayOrigins == {0, 16, 48, 100, 150}
RayRows == {16, 100}
RayDists == {0, 50, 100, 200}
RayBoxes == {0, 64, 120}

\* the value a call leaves: the returned array, or the exception it threw
Returned(hits) == [threw |-> FALSE, hits |-> hits]
TypeError == [threw |-> TRUE, hits |-> <<>>]

\* SpatialGrid.getObjectsInRay: 'const distance = 0', then the loop
\* 'while (distance < ray.maxDistance) { ...; distance += step }': with
\* maxDistance <= 0 the body never runs and the empty array is returned;
\* otherwise the first pass ends in the assignment to the constant, which
\* throws a TypeError
getObjectsInRay(maxDistance) ==
    IF 0 < maxDistance THEN TypeError ELSE Returned(<<>>)

\* Physics.raycastAABB for a direction (dx, 0), dx = 1 or -1.  The y slabs
\* are divisions by 0: with the origin's y strictly inside the box's y range
\* they are -Infinity and +Infinity and drop out of tNear and tFar; with it
\* outside they have the same sign and the test 'tNear > tFar' returns null.
InRow(oy) == 0 < oy /\ oy < ObjWidth
raycastAABB(ox, oy, dx, maxDistance, bx) ==
    LET tMinX == (bx - ox) * dx
        tMaxX == (bx + ObjWidth - ox) * dx
        tNear == Min(tMinX, tMaxX)
        tFar == Max(tMinX, tMaxX)
    IN  IF ~InRow(oy) \/ tNear > tFar \/ tFar < 0 \/ tNear > maxDistance
        THEN <<>>
        ELSE <<[distance |-> IF tNear > 0 THEN tNear ELSE tFar]>>

\* Physics.raycast: the candidates of the grid, each tested by raycastAABB;
\* an exception of getObjectsInRay is not caught
raycast(ox, oy, dx, maxDistance, bx) ==
    LET cand == getObjectsInRay(maxDistance)
    IN  IF cand.threw THEN TypeError
        ELSE IF cand.hits = <<>> THEN Returned(<<>>)
        ELSE Returned(raycastAABB(ox, oy, dx, maxDistance, bx))

RayInit ==
    /\ rox \in RayOrigins
    /\ roy \in RayRows
    /\ rdir \in {-1, 1}
    /\ rmax \in RayDists
    /\ rbx \in RayBoxes
    /\ rres = Returned(<<>>)
    /\ rphase = "ready"

\* a call of physics.raycast(origin, direction, maxDistance)
Raycast ==
    /\ rphase = "ready"
    /\ rres' = raycast(rox, roy, rdir, rmax, rbx)
    /\ rphase' = "done"
    /\ UNCHANGED <<rox, roy, rdir, rmax, rbx>>
    /\ UNCHANGED notRay

\* the caller moves on to another ray
NextRay(ox, dx, maxDistance) ==
    /\ rphase = "done"
    /\ rox' = ox
    /\ rdir' = dx
    /\ rmax' = maxDistance
    /\ rphase' = "ready"
    /\ UNCHANGED <<roy, rbx, rres>>
    /\ UNCHANGED notRay

RayNext ==
    \/ Raycast
    \/ \E ox \in RayOrigins, dx \in {-1, 1}, d \in RayDists : NextRay(ox, dx, d)

(***************************************************************************)
(* Falling onto a ground strip: Game.startLevel on a level whose collision *)
(* layer has one solid row, then frames of Game.update at dt = 1/60.       *)
(* A position unit is PScale steps, so that v * dt / 4 is exact.           *)
(***************************************************************************)
FramesPerSecond == 60
PScale == SubSteps * FramesPerSecond * VScale
DefaultGravity == 980
LevelGravity == 800
TileSize == 32
StripRow == 27
LevelWidth == 50
PlayerHeight == 32
\* the scenario: the player's box starts SpawnGap units above the strip
SpawnGap == 50
TerminalVelocity == 1000

StripTop == StripRow * TileSize * PScale
SpawnY == StripTop - (PlayerHeight + SpawnGap) * PScale

FallInit ==
    /\ fstate = "menu"
    /\ fcollision = {}
    /\ fobjects = <<>>
    /\ ftoAdd = <<>>
    /\ fy = 0
    /\ fvy = 0
    /\ fay = 0
    /\ fgravity = DefaultGravity
    /\ fgrounded = FALSE
    /\ fstep = "world"
    /\ fframes = 0

\* Game.startLevel: World.loadLevel stores the tile arrays in the layers Map
\* (no collider object is made from them) and the spawn point,
\* Game.createPlayer queues a new Player at the spawn point, and the level's
\* gravity is set on the physics
StartLevel ==
    /\ fstate = "menu"
    /\ fcollision' = {StripRow}
    /\ fobjects' = SelectSeq(fobjects, LAMBDA o : FALSE)
    /\ ftoAdd' = Append(ftoAdd, "player")
    /\ fy' = SpawnY
    /\ fvy' = 0
    /\ fay' = 0
    /\ fgravity' = LevelGravity
    /\ fgrounded' = FALSE
    /\ fstate' = "playing"
    /\ UNCHANGED <<fstep, fframes>>
    /\ UNCHANGED notFall

\* the pairs Physics.detectCollisions can test: distinct objects of the list
FallPairs(objs) == {p \in SeqSet(objs) \X SeqSet(objs) : p[1] # p[2]}

\* World.update: processObjectChanges, then the player's GameObject.update:
\* updatePhysics (acceleration, friction 0.15, position) and Player.onUpdate
\* with no key pressed (updatePhysicsState sets isGrounded)
FallWorldUpdate ==
    /\ fstate = "playing"
    /\ fstep = "world"
    /\ fframes < MaxFallFrames
    /\ fobjects' = fobjects \o ftoAdd
    /\ ftoAdd' = <<>>
    /\ LET v1 == Frac(fvy + (fay \div FramesPerSecond), 15, 100)
       IN  /\ fvy' = v1
           /\ fy' = fy + SubSteps * v1
           /\ fgrounded' = (Abs(v1) < VScale)
    /\ fay' = 0
    /\ fstep' = "physics"
    /\ UNCHANGED <<fstate, fcollision, fgravity, fframes>>
    /\ UNCHANGED notFall

\* Physics.physicsSubStep n times for the player: integrateVelocity,
\* detectCollisions and resolveCollisions (no pair: the list holds the player
\* alone), integratePosition
RECURSIVE fallSubSteps(_, _, _, _)
fallSubSteps(n, y, v, a) ==
    IF n = 0 THEN [y |-> y, v |-> v, a |-> a]
    ELSE LET v1 == v + (a \div (SubSteps * FramesPerSecond))
         IN  fallSubSteps(n - 1, y + v1, v1, 0)

\* Physics.update: applyGravity, the grid, the sub-steps
FallPhysicsUpdate ==
    /\ fstate = "playing"
    /\ fstep = "physics"
    /\ LET a1 == fay + fgravity * VScale
           v0 == IF fvy > TerminalVelocity * VScale
                 THEN TerminalVelocity * VScale ELSE fvy
           r == fallSubSteps(SubSteps, fy, v0, a1)
       IN  /\ fy' = r.y
           /\ fvy' = r.v
           /\ fay' = r.a
    /\ fstep' = "world"
    /\ fframes' = fframes + 1
    /\ UNCHANGED <<fstate, fcollision, fobjects, ftoAdd, fgravity, fgrounded>>
    /\ UNCHANGED notFall

FallNext ==
    \/ StartLevel
    \/ FallWorldUpdate
    \/ FallPhysicsUpdate

(***************************************************************************)
(* Enemy patrol: frames of GameObject.update (updatePhysics, then          *)
(* Enemy.onUpdate -> updateAI -> updatePatrol) followed by Physics.update, *)
(* with no player in the world.  A frame delta is k / TScale seconds,      *)
(* k <= TScale / 30 (the cap of Game.gameLoop); positions are in           *)
(* 1 / TScale units so that velocity * delta is exact.                     *)
(***************************************************************************)
TScale == 240
FrameDeltas == {1, 8}
PatrolDistance == 100
EnemySpeed == 100
PatrolTimeout == 3

\* Enemy.updatePatrol: velocity.x = direction * speed * 0.5
PatrolVelocity(dir) == dir * (EnemySpeed \div 2)

\* GameObject.updatePhysics on velocity.x with the enemy's friction 0.3
EnemyFriction(v) == (v * 3) \div 10

EnemyInit ==
    /\ ex = 0
    /\ evx = 0
    /\ edir = 1
    /\ etimer = 0
    /\ eprevDist = 0
    /\ edist = 0
    /\ eflipped = FALSE
    /\ etimedOut = FALSE
    /\ eframes = 0

\* one frame of Game.update with delta k / TScale
EnemyFrame(k) ==
    /\ eframes < MaxPatrolFrames
    /\ LET \* GameObject.updatePhysics: friction, then position
           v1 == EnemyFriction(evx)
           x1 == ex + v1 * k
           \* Enemy.updateAI
           t1 == etimer + k
           \* Enemy.updatePatrol
           d == Abs(x1)
           flip == d >= PatrolDistance * TScale \/ t1 > PatrolTimeout * TScale
           dir1 == IF flip THEN -edir ELSE edir
           v2 == PatrolVelocity(dir1)
       IN  /\ edir' = dir1
           /\ etimer' = IF flip THEN 0 ELSE t1
           /\ evx' = v2
           \* Physics.update: four integratePosition steps of delta / 4
           /\ ex' = x1 + v2 * k
           /\ eprevDist' = edist
           /\ edist' = d
           /\ eflipped' = flip
           /\ etimedOut' = (t1 > PatrolTimeout * TScale)
    /\ eframes' = eframes + 1
    /\ UNCHANGED notEnemy

EnemyNext == \E k \in FrameDeltas : EnemyFrame(k)

(***************************************************************************)
(* Saving and restoring the world state.  Flag names and collectible ids   *)
(* are strings, so Object.fromEntries and Object.entries keep the keys.    *)
(***************************************************************************)
LevelNames == {"Tutorial", "Forest"}
LevelCheckpoints == {"start"}
FlagNames == {"doorOpen", "bossDead"}
ItemIds == {"coin1"}

NoSnapshot ==
    [taken |-> FALSE, level |-> "null", checkpoint |-> "null", flags |-> {},
     collectibles |-> {}, worldTime |-> 0]

SaveInit ==
    /\ scur = "null"
    /\ sarr = FALSE
    /\ scps = {}
    /\ scp = "null"
    /\ sflags = {}
    /\ scoll = {}
    /\ stime = 0
    /\ ssnap = NoSnapshot
    /\ sres = "none"
    /\ sop = "new"

\* World.loadLevel(arg): currentLevel is set first ('Unknown' when arg has no
\* metadata.name, as for a string), then clearLevel, which throws on a layer
\* that is a tile array, then arg.properties.width, which throws when arg is
\* a string; for level data the tile arrays are stored and the checkpoints
\* loaded
loadLevelName(isData, name) == IF isData THEN name ELSE "Unknown"
loadLevel(isData, name, arr, cps, cp) ==
    IF arr
    THEN [cur |-> loadLevelName(isData, name), arr |-> arr, cps |-> cps,
          cp |-> cp, res |-> "TypeError"]
    ELSE IF ~isData
    THEN [cur |-> loadLevelName(isData, name), arr |-> arr, cps |-> {},
          cp |-> "null", res |-> "TypeError"]
    ELSE [cur |-> loadLevelName(isData, name), arr |-> TRUE,
          cps |-> LevelCheckpoints, cp |-> "null", res |-> "returned"]

SaveLoadLevel(n) ==
    /\ LET r == loadLevel(TRUE, n, sarr, scps, scp)
       IN  /\ scur' = r.cur
           /\ sarr' = r.arr
           /\ scps' = r.cps
           /\ scp' = r.cp
           /\ sres' = r.res
    /\ sop' = "loadLevel"
    /\ UNCHANGED <<sflags, scoll, stime, ssnap>>
    /\ UNCHANGED notSave

\* World.setFlag(name, true)
SaveSetFlag(f) ==
    /\ f \notin sflags
    /\ sflags' = sflags \cup {f}
    /\ sop' = "setFlag"
    /\ UNCHANGED <<scur, sarr, scps, scp, scoll, stime, ssnap, sres>>
    /\ UNCHANGED notSave

\* World.collectItem
SaveCollectItem(i) ==
    /\ i \notin scoll
    /\ scoll' = scoll \cup {i}
    /\ sop' = "collectItem"
    /\ UNCHANGED <<scur, sarr, scps, scp, sflags, stime, ssnap, sres>>
    /\ UNCHANGED notSave

\* World.update: worldTime += deltaTime
SaveTick ==
    /\ stime < MaxTime
    /\ stime' = stime + 1
    /\ sop' = "update"
    /\ UNCHANGED <<scur, sarr, scps, scp, sflags, scoll, ssnap, sres>>
    /\ UNCHANGED notSave

\* World.activateCheckpoint
SaveActivateCheckpoint(c) ==
    /\ c \in scps
    /\ scp' = c
    /\ sop' = "activateCheckpoint"
    /\ UNCHANGED <<scur, sarr, scps, sflags, scoll, stime, ssnap, sres>>
    /\ UNCHANGED notSave

\* World.saveGameState
saveGameState(cur, cp, flags, coll, time) ==
    [taken |-> TRUE, level |-> cur, checkpoint |-> cp, flags |-> flags,
     collectibles |-> coll, worldTime |-> time]

SaveGameState ==
    /\ ssnap' = saveGameState(scur, scp, sflags, scoll, stime)
    /\ sop' = "saveGameState"
    /\ UNCHANGED <<scur, sarr, scps, scp, sflags, scoll, stime, sres>>
    /\ UNCHANGED notSave

\* World.loadGameState(snapshot): loadLevel(snapshot.level) when the level is
\* not null (it is the level's name, a string), then the flags, the
\* collectibles, the clock and the checkpoint; a throw of loadLevel ends it
LoadGameState ==
    /\ ssnap.taken
    /\ IF ssnap.level # "null"
       THEN LET r == loadLevel(FALSE, ssnap.level, sarr, scps, scp)
            IN  /\ scur' = r.cur
                /\ sarr' = r.arr
                /\ scps' = r.cps
                /\ scp' = r.cp
                /\ sres' = r.res
                /\ UNCHANGED <<sflags, scoll, stime>>
       ELSE /\ sflags' = ssnap.flags
            /\ scoll' = ssnap.collectibles
            /\ stime' = ssnap.worldTime
            /\ scp' = IF ssnap.checkpoint \in scps THEN ssnap.checkpoint ELSE scp
            /\ sres' = "returned"
            /\ UNCHANGED <<scur, sarr, scps>>
    /\ sop' = "loadGameState"
    /\ UNCHANGED ssnap
    /\ UNCHANGED notSave

SaveNext ==
    \/ \E n \in LevelNames : SaveLoadLevel(n)
    \/ \E f \in FlagNames : SaveSetFlag(f)
    \/ \E i \in ItemIds : SaveCollectItem(i)
    \/ SaveTick
    \/ \E c \in LevelCheckpoints : SaveActivateCheckpoint(c)
    \/ SaveGameState
    \/ LoadGameState

(***************************************************************************)
(* Loading a level description into a fresh world.  A description may lack *)
(* the collision tile layer or the entity list and may hold entities of    *)
(* unknown type.                                                           *)
(***************************************************************************)
EntityTypes == {"player_spawn", "powerup", "dragon"}
\* the cases of createEntityFromData that construct an object
CreatedTypes == {"powerup", "basic_enemy", "flying_enemy", "checkpoint",
                 "platform", "health"}
EntityLists == {<<>>} \cup {<<a>> : a \in EntityTypes}
                      \cup {<<a, b>> : a \in EntityTypes, b \in EntityTypes}
Descriptions ==
    [hasCollision : BOOLEAN, hasEntities : BOOLEAN, entities : EntityLists,
     checkpoints : 0..MaxCheckpoints]

\* levelData.layers.entities || []
EntitiesOrEmpty(d) == IF d.hasEntities THEN d.entities ELSE <<>>

\* World.processEntities over createEntityFromData: an object for each known
\* type, nothing for a spawn point or an unknown type
processEntities(list) == SelectSeq(list, LAMBDA t : t \in CreatedTypes)

LevelInit ==
    /\ ldesc \in Descriptions
    /\ ldesc.hasEntities \/ ldesc.entities = <<>>
    /\ lphase = "new"
    /\ lres = "none"
    /\ lcps = 0
    /\ lents = <<>>
    /\ lspawn = FALSE
    /\ lasync = "none"

\* World.loadLevel up to its return or throw: the tile layers (|| []),
\* loadLevelEntities starts the imports, loadCheckpoints, loadAreas,
\* loadTriggers, then levelData.layers.entities.find(...), which throws when
\* the description has no entity list
LevelLoad ==
    /\ lphase = "new"
    /\ lphase' = "loaded"
    /\ lasync' = "pending"
    /\ lcps' = ldesc.checkpoints
    /\ lres' = IF ldesc.hasEntities THEN "returned" ELSE "TypeError"
    /\ lspawn' = (ldesc.hasEntities
                  /\ \E i \in 1..Len(ldesc.entities) : ldesc.entities[i] = "player_spawn")
    /\ UNCHANGED <<ldesc, lents>>
    /\ UNCHANGED notLevel

\* the imports resolve and the callback runs processEntities
LevelImportsResolve ==
    /\ lasync = "pending"
    /\ lasync' = "done"
    /\ lents' = processEntities(EntitiesOrEmpty(ldesc))
    /\ lspawn' = (lspawn \/ \E i \in 1..Len(EntitiesOrEmpty(ldesc)) :
                                EntitiesOrEmpty(ldesc)[i] = "player_spawn")
    /\ UNCHANGED <<ldesc, lphase, lres, lcps>>
    /\ UNCHANGED notLevel

\* an import is rejected: processEntities never runs
LevelImportsFail ==
    /\ lasync = "pending"
    /\ lasync' = "rejected"
    /\ UNCHANGED <<ldesc, lphase, lres, lcps, lents, lspawn>>
    /\ UNCHANGED notLevel

LevelNext ==
    \/ LevelLoad
    \/ LevelImportsResolve
    \/ LevelImportsFail

(***************************************************************************)
(* One object's update throwing.  World.updateGameObjects calls            *)
(* obj.update(deltaTime); Checkpoint.update(deltaTime, world) reads        *)
(* world.getPlayer() (or world.time once activated) and so throws          *)
(* TypeError on every call, its world parameter being undefined.           *)
(***************************************************************************)
ObjectKinds == {"enemy", "checkpoint"}
KindLists == UNION {[1..n -> ObjectKinds] : n \in 1..MaxListed}

\* the update of an object of this class throws
UpdateThrows(kind) == kind = "checkpoint"

\* World.updateGameObjects from index i on: the objects updated, and whether
\* the loop was left by an exception (there is no try around obj.update)
RECURSIVE updateGameObjects(_, _, _, _)
updateGameObjects(kinds, active, i, done) ==
    IF i > Len(kinds) THEN [updated |-> done, threw |-> FALSE]
    ELSE IF i \notin active THEN updateGameObjects(kinds, active, i + 1, done)
    ELSE IF UpdateThrows(kinds[i]) THEN [updated |-> done, threw |-> TRUE]
    ELSE updateGameObjects(kinds, active, i + 1, done \cup {i})

UpdateInit ==
    /\ ukinds \in KindLists
    /\ uactive \in SUBSET (1..Len(ukinds))
    /\ uupdated = {}
    /\ uphysics = FALSE
    /\ upc = "idle"

\* Game.update, first half: World.update.  An exception leaves Game.update
\* and Game.gameLoop before requestAnimationFrame is called again.
UpdateWorld ==
    /\ upc = "idle"
    /\ LET r == updateGameObjects(ukinds, uactive, 1, {})
       IN  /\ uupdated' = r.updated
           /\ upc' = IF r.threw THEN "crashed" ELSE "physics"
    /\ uphysics' = FALSE
    /\ UNCHANGED <<ukinds, uactive>>
    /\ UNCHANGED notUpdate

\* Game.update, second half: Physics.update
UpdatePhysics ==
    /\ upc = "physics"
    /\ uphysics' = TRUE
    /\ upc' = "done"
    /\ UNCHANGED <<ukinds, uactive, uupdated>>
    /\ UNCHANGED notUpdate

\* the next animation frame
UpdateNextFrame ==
    /\ upc = "done"
    /\ upc' = "idle"
    /\ UNCHANGED <<ukinds, uactive, uupdated, uphysics>>
    /\ UNCHANGED notUpdate

UpdateNext ==
    \/ UpdateWorld
    \/ UpdatePhysics
    \/ UpdateNextFrame

(***************************************************************************)
(* Player.takeDamage and the invulnerability timer.  Times are in          *)
(* 1/TScale seconds; a frame lasts 1/60 s or the capped 1/30 s.            *)
(***************************************************************************)
MaxHealth == 100
StartLives == 3
InvulnerabilityDuration == 1
KnockbackSpeed == 200
DamageDeltas == {4, 8}
DamageAmounts == {50, 100}
\* where the source of the damage is: none given, or left/right of the player
DamageSources == {"none", "left", "right"}
\* velocity.x as the frame's movement input leaves it
InputVelocities == {0 - BaseSpeed, 0, BaseSpeed}

\* the shield's entry never gets an `active` property
ShieldActive == FALSE

\* direction from the source's centre to the player's, normalized
KnockbackDirection(source) ==
    IF source = "left" THEN 1 ELSE IF source = "right" THEN 0 - 1 ELSE 0

\* Player.respawn after the lives were decremented (die)
die(p) ==
    LET lives == p.lives - 1
    IN  IF lives > 0
        THEN [p EXCEPT !.lives = lives, !.health = MaxHealth,
                       !.inv = InvulnerabilityDuration * 2 * TScale, !.vel = 0]
        ELSE [p EXCEPT !.lives = lives]

\* takeDamage with the invulnerability test left out
takeDamageAlways(p, amount, source) ==
    LET hit == [p EXCEPT !.health = p.health - amount,
                         !.inv = InvulnerabilityDuration * TScale,
                         !.vel = p.vel + KnockbackDirection(source) * KnockbackSpeed]
        end == IF hit.health <= 0 THEN die(hit) ELSE hit
    IN  [end EXCEPT !.res = "true"]

\* Player.takeDamage(amount, source) on the player p: the player afterwards
\* and the value returned
takeDamage(p, amount, source) ==
    IF p.inv > 0 THEN [p EXCEPT !.res = "false"]
    ELSE IF ShieldActive THEN [p EXCEPT !.res = "false"]
    ELSE LET hit == [p EXCEPT !.health = p.health - amount,
                              !.inv = InvulnerabilityDuration * TScale,
                              !.vel = p.vel + KnockbackDirection(source) * KnockbackSpeed]
             end == IF hit.health <= 0 THEN die(hit) ELSE hit
         IN  [end EXCEPT !.res = "true"]

NoDamageCall == [health |-> 0, lives |-> 0, inv |-> 0, vel |-> 0]

DamageInit ==
    /\ dhealth = MaxHealth
    /\ dlives = StartLives
    /\ dinv = 0
    /\ dvel = 0
    /\ dres = "none"
    /\ dop = "new"
    /\ dpre = NoDamageCall

\* something calls player.takeDamage(amount, source); Game.update goes on
\* updating the world and the physics in the 'gameOver' state
CallTakeDamage(amount, source) ==
    /\ StartLives - dlives < MaxDeaths
    /\ LET p == [health |-> dhealth, lives |-> dlives, inv |-> dinv,
                 vel |-> dvel, res |-> dres]
           q == takeDamage(p, amount, source)
       IN  /\ dhealth' = q.health
           /\ dlives' = q.lives
           /\ dinv' = q.inv
           /\ dvel' = q.vel
           /\ dres' = q.res
    /\ dpre' = [health |-> dhealth, lives |-> dlives, inv |-> dinv, vel |-> dvel]
    /\ dop' = "takeDamage"
    /\ UNCHANGED notDamage

\* a frame of the player: updateTimers counts the window down, the movement
\* input sets velocity.x
DamageFrame(dt, vx) ==
    /\ StartLives - dlives < MaxDeaths
    /\ dinv' = IF dinv > 0 THEN dinv - dt ELSE dinv
    /\ dvel' = vx
    /\ dop' = "frame"
    /\ dpre' = NoDamageCall
    /\ UNCHANGED <<dhealth, dlives, dres>>
    /\ UNCHANGED notDamage

DamageNext ==
    \/ \E amount \in DamageAmounts, source \in DamageSources :
           CallTakeDamage(amount, source)
    \/ \E dt \in DamageDeltas, vx \in InputVelocities : DamageFrame(dt, vx)

(***************************************************************************)
(* Gravity on one default GameObject (mass 1, friction 0.8) that collides  *)
(* with nothing: frames of Game.update at dt = 1/60, in the units of the   *)
(* falling player.                                                         *)
(***************************************************************************)
GravityScales == {0, 1}
StartSpeeds == {0, 60}
PushForces == {0 - 600, 600}

\* Physics.applyGravity on the object: the acceleration after addForce and
\* the velocity after the terminal-velocity clamp
applyGravityAlways(scale, vy, ay) ==
    [ay |-> ay + DefaultGravity * VScale,
     vy |-> IF vy > TerminalVelocity * VScale THEN TerminalVelocity * VScale ELSE vy]

applyGravity(scale, vy, ay) ==
    IF scale > 0
    THEN [ay |-> ay + DefaultGravity * scale * VScale,
          vy |-> IF vy > TerminalVelocity * VScale
                 THEN TerminalVelocity * VScale ELSE vy]
    ELSE [ay |-> ay, vy |-> vy]

\* Physics.physicsSubStep n times: integrateVelocity unless gravityScale is
\* 0, no collision, integratePosition
RECURSIVE physicsSubSteps(_, _, _, _, _)
physicsSubSteps(n, scale, y, v, a) ==
    IF n = 0 THEN [y |-> y, v |-> v, a |-> a]
    ELSE LET v1 == IF scale # 0 THEN v + (a \div (SubSteps * FramesPerSecond)) ELSE v
             a1 == IF scale # 0 THEN 0 ELSE a
         IN  physicsSubSteps(n - 1, scale, y + v1, v1, a1)

HoverInit ==
    /\ hscale \in GravityScales
    /\ hvy \in {v * VScale : v \in StartSpeeds}
    /\ hy = 0
    /\ hay = 0
    /\ hstart = [y |-> hy, vy |-> hvy]
    /\ hforced = FALSE
    /\ hstep = "world"
    /\ hframes = 0

\* World.update: the object's GameObject.update, that is updatePhysics
\* (acceleration into velocity, friction, velocity into position, reset)
HoverWorldUpdate ==
    /\ hstep = "world"
    /\ hframes < MaxHoverFrames
    /\ LET v1 == Frac(hvy + (hay \div FramesPerSecond), 8, 10)
       IN  /\ hvy' = v1
           /\ hy' = hy + SubSteps * v1
    /\ hay' = 0
    /\ hstep' = "physics"
    /\ UNCHANGED <<hscale, hstart, hforced, hframes>>
    /\ UNCHANGED notHover

\* Physics.update: applyGravity, then the sub-steps
HoverPhysicsUpdate ==
    /\ hstep = "physics"
    /\ LET g == applyGravity(hscale, hvy, hay)
           r == physicsSubSteps(SubSteps, hscale, hy, g.vy, g.ay)
       IN  /\ hy' = r.y
           /\ hvy' = r.v
           /\ hay' = r.a
    /\ hstep' = "world"
    /\ hframes' = hframes + 1
    /\ UNCHANGED <<hscale, hstart, hforced>>
    /\ UNCHANGED notHover

\* between two frames something calls obj.addForce(f)
HoverAddForce(f) ==
    /\ hstep = "world"
    /\ ~hforced
    /\ hay' = hay + f * VScale
    /\ hforced' = TRUE
    /\ UNCHANGED <<hscale, hy, hvy, hstart, hstep, hframes>>
    /\ UNCHANGED notHover

HoverNext ==
    \/ HoverWorldUpdate
    \/ HoverPhysicsUpdate
    \/ \E f \in PushForces : HoverAddForce(f)

(***************************************************************************)
(* loadLevel called for one level and then another while the imports that  *)
(* loadLevelEntities started are still outstanding.  Entities are          *)
(* power-ups: not persistent, on the 'entities' layer.                     *)
(***************************************************************************)
Levels == {"A", "B"}

\* the objects processEntities makes from a level's spawn list
EntitiesOf(level, n) == [i \in 1..n |-> [level |-> level, index |-> i]]

ReloadInit ==
    /\ rspawn \in [Levels -> 1..MaxSpawn]
    /\ rcur = "none"
    /\ rarrays = FALSE
    /\ rimports = <<>>
    /\ rtoAdd = <<>>
    /\ rlive = <<>>
    /\ rloads = 0

\* World.loadLevel(level): currentLevel is set; clearLevel filters
\* gameObjects and then throws on a layer that is a tile array, which ends
\* loadLevel; otherwise the tile arrays are stored and loadLevelEntities
\* starts its imports.  toAdd is not touched.
ReloadLoadLevel(level) ==
    /\ rloads < MaxLoads
    /\ rloads' = rloads + 1
    /\ rcur' = level
    /\ rlive' = <<>>
    /\ IF rarrays
       THEN UNCHANGED <<rarrays, rimports>>
       ELSE /\ rarrays' = TRUE
            /\ rimports' = Append(rimports, level)
    /\ UNCHANGED <<rspawn, rtoAdd>>
    /\ UNCHANGED notReload

\* the oldest import chain resolves: processEntities calls addObject for
\* every entity of the spawn list it was started with
ReloadImportsResolve ==
    /\ rimports # <<>>
    /\ rtoAdd' = rtoAdd \o EntitiesOf(Head(rimports), rspawn[Head(rimports)])
    /\ rimports' = Tail(rimports)
    /\ UNCHANGED <<rspawn, rcur, rarrays, rlive, rloads>>
    /\ UNCHANGED notReload

\* a frame's World.update: processObjectChanges takes in the pending objects
ReloadFrame ==
    /\ rcur # "none"
    /\ rlive' = rlive \o rtoAdd
    /\ rtoAdd' = <<>>
    /\ UNCHANGED <<rspawn, rcur, rarrays, rimports, rloads>>
    /\ UNCHANGED notReload

ReloadNext ==
    \/ \E level \in Levels : ReloadLoadLevel(level)
    \/ ReloadImportsResolve
    \/ ReloadFrame

(***************************************************************************)
(* A power-up and the player, alone in the world, on one row.  The         *)
(* power-up is made either by game code, new PowerUp(x, y, 'health'), or   *)
(* by createEntityFromData, new PowerUp(x, y, { powerType }): there the    *)
(* constructor's third argument is an object, not the type's name.         *)
(***************************************************************************)
PowerUpWidth == 24
\* the power-up's box ends at the border of the first grid cell
PowerUpX == CellSize - PowerUpWidth
PowerUpHealth == 25
PowerTypes == {"health", "score", "doubleJump"}
PlayerXs == {0, 20, 100}
StartHealths == {50, 100}

\* what `switch (this.powerType)` compares: the name, or an object that no
\* case label equals
SwitchKey(power) == IF power.wrapped THEN "object" ELSE power.type

\* PowerUp.setupPowerUpProperties: value and abilityName
PowerValue(power) == IF SwitchKey(power) = "health" THEN PowerUpHealth ELSE 1
AbilityName(power) ==
    IF SwitchKey(power) \in {"doubleJump", "dash", "wallJump", "attack", "shield"}
    THEN SwitchKey(power) ELSE "undefined"

\* Physics.checkAABBCollision on the row
PickupOverlap(px) == ~(px + ObjWidth <= PowerUpX \/ PowerUpX + PowerUpWidth <= px)

\* PowerUp.collect(player): the effect by powerType, then destroy()
collect(s) ==
    LET t == SwitchKey(s.power)
        hit == IF t = "health"
               THEN [s EXCEPT !.health = Min(MaxHealth, s.health + PowerValue(s.power)),
                              !.applied = s.applied + 1]
               ELSE IF t = "score"
               THEN [s EXCEPT !.score = s.score + PowerValue(s.power),
                              !.applied = s.applied + 1]
               ELSE IF AbilityName(s.power) # "undefined"
               THEN [s EXCEPT !.unlocked = s.unlocked \cup {AbilityName(s.power)},
                              !.applied = s.applied + 1]
               ELSE s
    IN  [hit EXCEPT !.collected = TRUE, !.destroyed = TRUE]

\* PowerUp.onTriggerEnter(other) with the player as other
onTriggerEnter(s) == IF ~s.collected THEN collect(s) ELSE s

\* Physics.physicsSubStep n times: detectCollisions records the pair when
\* shouldCheckCollision passes (not destroyed) and the boxes overlap, and
\* resolveCollision hands it to handleTriggerCollision
RECURSIVE pickupSubSteps(_, _)
pickupSubSteps(n, s) ==
    IF n = 0 THEN s
    ELSE pickupSubSteps(n - 1,
            IF ~s.destroyed /\ PickupOverlap(s.px) THEN onTriggerEnter(s) ELSE s)

PickupInit ==
    /\ kpower \in [wrapped : BOOLEAN, type : PowerTypes]
    /\ kpx \in PlayerXs
    /\ khealth \in StartHealths
    /\ kscore = 0
    /\ kunlocked = {}
    /\ kapplied = 0
    /\ kcollected = FALSE
    /\ kdestroyed = FALSE
    /\ kmet = FALSE
    /\ ksteps = 0

\* Physics.update for the two objects
PickupPhysicsUpdate ==
    /\ ksteps < MaxPickupSteps
    /\ ksteps' = ksteps + 1
    /\ LET s == [power |-> kpower, px |-> kpx, health |-> khealth, score |-> kscore,
                 unlocked |-> kunlocked, applied |-> kapplied,
                 collected |-> kcollected, destroyed |-> kdestroyed]
           r == pickupSubSteps(SubSteps, s)
       IN  /\ khealth' = r.health
           /\ kscore' = r.score
           /\ kunlocked' = r.unlocked
           /\ kapplied' = r.applied
           /\ kcollected' = r.collected
           /\ kdestroyed' = r.destroyed
    /\ kmet' = (kmet \/ (~kdestroyed /\ PickupOverlap(kpx)))
    /\ UNCHANGED <<kpower, kpx>>
    /\ UNCHANGED notPickup

\* between two physics steps the player moves along the row
PickupMove(x) ==
    /\ x # kpx
    /\ kpx' = x
    /\ UNCHANGED <<kpower, khealth, kscore, kunlocked, kapplied, kcollected,
                   kdestroyed, kmet, ksteps>>
    /\ UNCHANGED notPickup

PickupNext ==
    \/ PickupPhysicsUpdate
    \/ \E x \in PlayerXs : PickupMove(x)

(***************************************************************************)
(* InputManager: keydown and keyup events arrive between frames (event     *)
(* handlers and the frame callback run on one thread), Game.update reads   *)
(* them.                                                                   *)
(***************************************************************************)
KeyCodes == {"Space", "KeyX"}

\* inputMap.get(action): only codes that KeyCodes holds are listed
MappedKeys(action) ==
    IF action = "jump" THEN {"Space"} ELSE IF action = "attack" THEN {"KeyX"} ELSE {}

\* InputManager.isActionDown(action)
isActionDown(keysDown, action) == MappedKeys(action) \cap keysDown # {}

\* InputManager.update: keysDown after it
inputUpdate(keysDown) == {}

InputInit ==
    /\ ikeys = {}
    /\ ikeysDown = {}
    /\ ipending = FALSE
    /\ ipressed = FALSE
    /\ iseen = FALSE
    /\ iframes = 0

\* the keydown handler: setKey and setKeyDown (a held key repeats keydown)
KeyDown(code) ==
    /\ ikeys' = ikeys \cup {code}
    /\ ikeysDown' = ikeysDown \cup {code}
    /\ ipending' = (ipending \/ code \in MappedKeys("jump"))
    /\ UNCHANGED <<ipressed, iseen, iframes>>
    /\ UNCHANGED notInput

\* the keyup handler: setKey(code, false)
KeyUp(code) ==
    /\ code \in ikeys
    /\ ikeys' = ikeys \ {code}
    /\ UNCHANGED <<ikeysDown, ipending, ipressed, iseen, iframes>>
    /\ UNCHANGED notInput

\* Game.update while playing: inputManager.update() first, then
\* world.update, in which Player.handleJumpInput reads isActionDown('jump')
GameUpdate ==
    /\ iframes < MaxInputFrames
    /\ iframes' = iframes + 1
    /\ ikeysDown' = inputUpdate(ikeysDown)
    /\ iseen' = isActionDown(inputUpdate(ikeysDown), "jump")
    /\ ipressed' = ipending
    /\ ipending' = FALSE
    /\ UNCHANGED ikeys
    /\ UNCHANGED notInput

InputNext ==
    \/ \E code \in KeyCodes : KeyDown(code)
    \/ \E code \in KeyCodes : KeyUp(code)
    \/ GameUpdate

(***************************************************************************)
(* Enemy.updateAI with a player on the enemy's row: frames of              *)
(* GameObject.update (updatePhysics, then onUpdate -> updateAI) at         *)
(* dt = 1/60, the player standing at a new place in every frame.           *)
(***************************************************************************)
AttackRange == 40
SightRange == 200
ArriveDistance == 20
AiDelta == TScale \div FramesPerSecond
AiPlayerSpots == {30, 190, 198, 206}

\* Enemy.canSeeTarget: true without a physics; else Physics.raycast over
\* the distance, and getObjectsInRay throws as soon as its loop is entered
canSeeTarget(physics, dist) ==
    IF ~physics THEN "true" ELSE IF dist > 0 THEN "TypeError" ELSE "true"

\* updateAI's choice of aiState (and stateTimer) from the sight test
nextAiState(state, last, timer, sees, dist) ==
    IF sees
    THEN [state |-> IF dist <= AttackRange * TScale THEN "attack" ELSE "chase",
          timer |-> timer]
    ELSE IF state = "chase" /\ last # <<>>
    THEN [state |-> "investigate", timer |-> timer]
    ELSE IF state # "patrol"
    THEN [state |-> "patrol", timer |-> 0]
    ELSE [state |-> state, timer |-> timer]

\* the state-specific behaviour: updatePatrol, updateChase, updateAttack,
\* updateInvestigate
aiBehaviour(e, px) ==
    IF e.state = "patrol"
    THEN LET flip == \/ Abs(e.x) >= PatrolDistance * TScale
                     \/ e.timer > PatrolTimeout * TScale
             dir1 == IF flip THEN 0 - e.dir ELSE e.dir
         IN  [e EXCEPT !.dir = dir1, !.timer = IF flip THEN 0 ELSE e.timer,
                       !.vx = PatrolVelocity(dir1)]
    ELSE IF e.state = "chase"
    THEN [e EXCEPT !.vx = Sign(px - e.x) * EnemySpeed]
    ELSE IF e.state = "attack"
    THEN [e EXCEPT !.vx = Frac(e.vx, 1, 2)]
    ELSE IF e.last = <<>> THEN e
    ELSE LET moving == [e EXCEPT !.vx = Sign(e.last[1] - e.x) * ((EnemySpeed * 7) \div 10)]
         IN  IF Abs(e.x - e.last[1]) < ArriveDistance * TScale
             THEN [moving EXCEPT !.state = "patrol", !.last = <<>>]
             ELSE moving

AiInit ==
    /\ aphysics \in BOOLEAN
    /\ apx \in {s * TScale : s \in AiPlayerSpots}
    /\ aex = 0
    /\ avx = 0
    /\ astate = "patrol"
    /\ alast = <<>>
    /\ adir = 1
    /\ atimer = 0
    /\ aprev = "patrol"
    /\ asight = FALSE
    /\ ares = "none"
    /\ aframes = 0

\* one frame with the player at px: updatePhysics (friction 0.3, position),
\* updateAI; an exception from canSeeTarget leaves updateAI before aiState
\* is touched and ends the game loop
AiFrame(px) ==
    /\ ares # "TypeError"
    /\ aframes < MaxAiFrames
    /\ aframes' = aframes + 1
    /\ apx' = px
    /\ aprev' = astate
    /\ LET v1 == EnemyFriction(avx)
           x1 == aex + v1 * AiDelta
           t1 == atimer + AiDelta
           dist == Abs(px - x1)
           inRange == dist <= SightRange * TScale
           see == IF inRange THEN canSeeTarget(aphysics, dist) ELSE "false"
       IN  IF see = "TypeError"
           THEN /\ ares' = "TypeError"
                /\ aex' = x1
                /\ avx' = v1
                /\ atimer' = t1
                /\ asight' = FALSE
                /\ UNCHANGED <<astate, alast, adir>>
           ELSE LET n == nextAiState(astate, alast, t1, see = "true", dist)
                    e == aiBehaviour([x |-> x1, vx |-> v1, state |-> n.state,
                                      last |-> IF see = "true" THEN <<px>> ELSE alast,
                                      dir |-> adir, timer |-> n.timer], px)
                IN  /\ ares' = "returned"
                    /\ aex' = e.x + e.vx * AiDelta
                    /\ avx' = e.vx
                    /\ astate' = e.state
                    /\ alast' = e.last
                    /\ adir' = e.dir
                    /\ atimer' = e.timer
                    /\ asight' = (see = "true")
    /\ UNCHANGED aphysics
    /\ UNCHANGED notAi

AiNext == \E s \in AiPlayerSpots : AiFrame(s * TScale)

(***************************************************************************)
(* Platform.onCollision and crumble: the player collides with a platform   *)
(* (one collision record per physics sub-step while the boxes overlap),    *)
(* time passes in steps of TickMs, timeouts fire when due.                 *)
(***************************************************************************)
PlatformTypes == {"solid", "bouncy", "fragile"}
FragileHealth == 1
CrumbleDelay == 500
TickMs == 250

\* Platform.crumble: the effect and one more timeout
crumble(p) == [p EXCEPT !.effects = p.effects + 1,
                        !.timers = Append(p.timers, CrumbleDelay)]

\* Platform.onCollision(other, collision) with the player as other
onCollision(p) ==
    IF p.type = "fragile"
    THEN LET q == [p EXCEPT !.health = p.health - 1]
         IN  IF q.health <= 0 THEN crumble(q) ELSE q
    ELSE p

CrumbleInit ==
    /\ qtype \in PlatformTypes
    /\ qhealth = IF qtype = "fragile" THEN FragileHealth ELSE 0
    /\ qtimers = <<>>
    /\ qeffects = 0
    /\ qdestroys = 0
    /\ qdestroyed = FALSE
    /\ qhits = 0
    /\ qtime = 0

\* Physics.handleCollisionCallbacks for a record of the player and the
\* platform; detectCollisions records none once the platform is destroyed
PlatformCollision ==
    /\ ~qdestroyed
    /\ qhits < MaxHits
    /\ qhits' = qhits + 1
    /\ LET p == onCollision([type |-> qtype, health |-> qhealth,
                             effects |-> qeffects, timers |-> qtimers])
       IN  /\ qhealth' = p.health
           /\ qeffects' = p.effects
           /\ qtimers' = p.timers
    /\ UNCHANGED <<qtype, qdestroys, qdestroyed, qtime>>
    /\ UNCHANGED notCrumble

\* time passes while no timeout is due
CrumbleTick ==
    /\ qtime < MaxMs
    /\ \A i \in 1..Len(qtimers) : qtimers[i] > 0
    /\ qtime' = qtime + TickMs
    /\ qtimers' = [i \in 1..Len(qtimers) |-> Max(0, qtimers[i] - TickMs)]
    /\ UNCHANGED <<qtype, qhealth, qeffects, qdestroys, qdestroyed, qhits>>
    /\ UNCHANGED notCrumble

\* the oldest due timeout runs its callback, () => this.destroy()
CrumbleTimeout ==
    /\ qtimers # <<>>
    /\ Head(qtimers) = 0
    /\ qtimers' = Tail(qtimers)
    /\ qdestroys' = qdestroys + 1
    /\ qdestroyed' = TRUE
    /\ UNCHANGED <<qtype, qhealth, qeffects, qhits, qtime>>
    /\ UNCHANGED notCrumble

CrumbleNext ==
    \/ PlatformCollision
    \/ CrumbleTick
    \/ CrumbleTimeout

(***************************************************************************)
(* Physics.detectCollisions and resolveCollisions over three solid,        *)
(* non-trigger objects.  An object's onCollision hook (GameObject sets it  *)
(* to null, game code assigns it) does nothing or destroys the object.     *)
(***************************************************************************)
Bodies == {"X", "Y", "Z"}
Hooks == {"null", "destroy"}
BodyPairs == {p \in Bodies \X Bodies : p[1] # p[2]}
\* the record lists a narrow phase can produce: each unordered pair at most once
RecordLists ==
    {s \in UNION {[1..n -> BodyPairs] : n \in 1..MaxRecords} :
        \A i, j \in 1..Len(s) : i # j => {s[i][1], s[i][2]} # {s[j][1], s[j][2]}}

\* Physics.shouldCheckCollision, the destroyed test
shouldCheckCollision(a, b, dead) == a \notin dead /\ b \notin dead

\* Physics.handleCollisionCallbacks(objA, objB): objA's hook, then objB's;
\* late are the participants that were destroyed before this record
handleCollisionCallbacks(a, b, hook, st) ==
    LET callA == hook[a] # "null"
        s1 == IF callA
              THEN [st EXCEPT !.calls = Append(@, <<a, b>>),
                              !.late = @ \cup ({a, b} \cap st.dead),
                              !.dead = @ \cup {a}]
              ELSE st
        callB == hook[b] # "null"
    IN  IF callB
        THEN [s1 EXCEPT !.calls = Append(@, <<b, a>>),
                        !.late = @ \cup ({a, b} \cap st.dead),
                        !.dead = @ \cup {b}]
        ELSE s1

\* Physics.resolveCollision on a record of two solid non-triggers:
\* positionalCorrection and resolveVelocity move both, then the callbacks
resolveRecord(a, b, hook, st) ==
    handleCollisionCallbacks(a, b, hook,
        [st EXCEPT !.late = @ \cup ({a, b} \cap st.dead)])

\* Physics.resolveCollisions: every record in turn
RECURSIVE resolveCollisions(_, _, _, _)
resolveCollisions(pairs, k, hook, st) ==
    IF k > Len(pairs) THEN st
    ELSE resolveCollisions(pairs, k + 1, hook,
                           resolveRecord(pairs[k][1], pairs[k][2], hook, st))

RecordsInit ==
    /\ zhook \in [Bodies -> Hooks]
    /\ zpairs = <<>>
    /\ zdestroyed = {}
    /\ zcalls = <<>>
    /\ zlate = {}
    /\ zphase = "detect"
    /\ zsteps = 0

\* detectCollisions: the overlapping pairs that pass shouldCheckCollision,
\* which resolveCollisions then sorts by penetration
RecordsDetect(list) ==
    /\ zphase = "detect"
    /\ zsteps < SubSteps
    /\ \A i \in 1..Len(list) : shouldCheckCollision(list[i][1], list[i][2], zdestroyed)
    /\ zpairs' = list
    /\ zphase' = "resolve"
    /\ UNCHANGED <<zhook, zdestroyed, zcalls, zlate, zsteps>>
    /\ UNCHANGED notRecords

RecordsResolve ==
    /\ zphase = "resolve"
    /\ LET r == resolveCollisions(zpairs, 1, zhook,
                    [dead |-> zdestroyed, calls |-> <<>>, late |-> {}])
       IN  /\ zdestroyed' = r.dead
           /\ zcalls' = r.calls
           /\ zlate' = r.late
    /\ zphase' = "detect"
    /\ zsteps' = zsteps + 1
    /\ UNCHANGED <<zhook, zpairs>>
    /\ UNCHANGED notRecords

RecordsNext ==
    \/ \E list \in RecordLists : RecordsDetect(list)
    \/ RecordsResolve

(***************************************************************************)
(* FlyingEnemy.takeDamage and its delayed callbacks: hits arrive, time     *)
(* passes in steps of TickMs, timeouts fire when due.  The 100 ms timeout  *)
(* of takeDamage only sets the colour and is left out.  World calls        *)
(* obj.update(deltaTime) without a world, so FlyingEnemy.update throws at  *)
(* world.getPlayer() before its state machine and leaves the state alone.  *)
(***************************************************************************)
FlyingHealth == 2
FlyingHealths == {FlyingHealth, FlyingHealth + 1}
HitAmounts == {1, 2}
StunDelay == 500

\* FlyingEnemy.die
flyingDie(e) == [e EXCEPT !.destroyed = TRUE]

\* FlyingEnemy.takeDamage(amount, source)
flyingTakeDamage(e, amount) ==
    LET h == [e EXCEPT !.health = e.health - amount]
    IN  IF h.health <= 0
        THEN flyingDie(h)
        ELSE [h EXCEPT !.state = "stunned",
                       !.timers = Append(h.timers, StunDelay)]

\* the callback takeDamage handed to setTimeout
stunCallback(state) == IF state = "stunned" THEN "patrol" ELSE state

StunInit ==
    /\ nhealth \in FlyingHealths
    /\ nstate = "patrol"
    /\ ndestroyed = FALSE
    /\ ntimers = <<>>
    /\ nsince = -1
    /\ nearly = FALSE
    /\ nposthumous = FALSE
    /\ nupdates = 0
    /\ ntime = 0

\* a projectile or the player hits the enemy; destroyed objects are in no
\* collision record
FlyingHit(amount) ==
    /\ ~ndestroyed
    /\ LET e == flyingTakeDamage([health |-> nhealth, state |-> nstate,
                                  destroyed |-> ndestroyed, timers |-> ntimers],
                                 amount)
       IN  /\ nhealth' = e.health
           /\ nstate' = e.state
           /\ ndestroyed' = e.destroyed
           /\ ntimers' = e.timers
           /\ nsince' = IF e.destroyed THEN nsince ELSE 0
    /\ UNCHANGED <<nearly, nposthumous, nupdates, ntime>>
    /\ UNCHANGED notStun

\* World.updateGameObjects calls enemy.update(deltaTime): GameObject.update,
\* the hover offset, then TypeError at world.getPlayer()
FlyingUpdate ==
    /\ ~ndestroyed
    /\ nupdates < MaxStunUpdates
    /\ nupdates' = nupdates + 1
    /\ UNCHANGED <<nhealth, nstate, ndestroyed, ntimers, nsince, nearly,
                   nposthumous, ntime>>
    /\ UNCHANGED notStun

\* time passes while no timeout is due
StunTick ==
    /\ ntime < MaxStunMs
    /\ \A i \in 1..Len(ntimers) : ntimers[i] > 0
    /\ ntime' = ntime + TickMs
    /\ ntimers' = [i \in 1..Len(ntimers) |-> Max(0, ntimers[i] - TickMs)]
    /\ nsince' = IF nsince < 0 THEN nsince ELSE nsince + TickMs
    /\ UNCHANGED <<nhealth, nstate, ndestroyed, nearly, nposthumous, nupdates>>
    /\ UNCHANGED notStun

\* the oldest due timeout runs its callback
StunTimeout ==
    /\ ntimers # <<>>
    /\ Head(ntimers) = 0
    /\ ntimers' = Tail(ntimers)
    /\ nstate' = stunCallback(nstate)
    /\ nearly' = (nearly \/ (~ndestroyed /\ nstate' # nstate /\ nsince < StunDelay))
    /\ nposthumous' = (nposthumous \/ (ndestroyed /\ nstate' # nstate))
    /\ UNCHANGED <<nhealth, ndestroyed, nsince, nupdates, ntime>>
    /\ UNCHANGED notStun

StunNext ==
    \/ \E amount \in HitAmounts : FlyingHit(amount)
    \/ FlyingUpdate
    \/ StunTick
    \/ StunTimeout

(***************************************************************************)
(* Game.startGame, startLevel, loadCustomLevel, pauseGame, resumeGame,     *)
(* gameOver, saveGame and loadGame, called in any order on one Game.       *)
(* World.loadLevel succeeds on a world that holds no tile arrays and       *)
(* throws in clearLevel on one that does; given the level name of a        *)
(* snapshot it throws in either case.                                      *)
(***************************************************************************)
\* World.loadLevel(levelData) as Game calls it
gameLoadLevel(g) ==
    IF g.arr THEN [g EXCEPT !.cur = TRUE, !.res = "TypeError"]
    ELSE [g EXCEPT !.cur = TRUE, !.arr = TRUE, !.res = "returned"]

\* Game.startLevel(levelIndex) with an index of the levels array, and
\* Game.restartLevel
startLevel(g) ==
    LET w == gameLoadLevel(g)
    IN  IF w.res = "TypeError" THEN w ELSE [w EXCEPT !.state = "playing"]

\* Game.loadCustomLevel(levelData)
loadCustomLevel(g) ==
    LET w == gameLoadLevel(g)
    IN  IF w.res = "TypeError" THEN w ELSE [w EXCEPT !.state = "playing"]

\* Game.startGame
startGame(g) == startLevel([g EXCEPT !.state = "playing", !.paused = FALSE])

\* Game.pauseGame
pauseGame(g) ==
    IF g.state = "playing"
    THEN [g EXCEPT !.paused = TRUE, !.state = "paused", !.res = "returned"]
    ELSE [g EXCEPT !.res = "returned"]

\* Game.resumeGame
resumeGame(g) ==
    IF g.state = "paused"
    THEN [g EXCEPT !.paused = FALSE, !.state = "playing", !.res = "returned"]
    ELSE [g EXCEPT !.res = "returned"]

\* Game.gameOver
gameOver(g) == [g EXCEPT !.state = "gameOver", !.res = "returned"]

\* Game.saveGame: the snapshot's level is world.currentLevel
saveGame(g) ==
    [g EXCEPT !.save = IF g.cur THEN "level" ELSE "null", !.res = "returned"]

\* Game.loadGame: no save data returns false; World.loadGameState loads the
\* snapshot's level when it is not null and throws, which loadGame catches
loadGame(g) ==
    IF g.save = "none" THEN [g EXCEPT !.res = "false"]
    ELSE IF g.save = "level" THEN [g EXCEPT !.cur = TRUE, !.res = "false"]
    ELSE [g EXCEPT !.state = "playing", !.res = "true"]

GameRec == [state |-> jstate, paused |-> jpaused, arr |-> jarr, cur |-> jcur,
            save |-> jsave, res |-> jres]

GameSet(g) ==
    /\ jcount' = jcount + 1
    /\ jstate' = g.state
    /\ jpaused' = g.paused
    /\ jarr' = g.arr
    /\ jcur' = g.cur
    /\ jsave' = g.save
    /\ jres' = g.res
    /\ UNCHANGED notGame

GameInit ==
    /\ jstate = "menu"
    /\ jpaused = FALSE
    /\ jarr = FALSE
    /\ jcur = FALSE
    /\ jsave \in {"none", "null", "level"}
    /\ jres = "new"
    /\ jcount = 0

CallStartGame ==
    /\ jcount < MaxGameCalls
    /\ GameSet(startGame(GameRec))
CallStartLevel ==
    /\ jcount < MaxGameCalls
    /\ GameSet(startLevel(GameRec))
CallLoadCustomLevel ==
    /\ jcount < MaxGameCalls
    /\ GameSet(loadCustomLevel(GameRec))
CallPauseGame ==
    /\ jcount < MaxGameCalls
    /\ GameSet(pauseGame(GameRec))
CallResumeGame ==
    /\ jcount < MaxGameCalls
    /\ GameSet(resumeGame(GameRec))
CallGameOver ==
    /\ jcount < MaxGameCalls
    /\ GameSet(gameOver(GameRec))
CallSaveGame ==
    /\ jcount < MaxGameCalls
    /\ GameSet(saveGame(GameRec))
CallLoadGame ==
    /\ jcount < MaxGameCalls
    /\ GameSet(loadGame(GameRec))

GameNext ==
    \/ CallStartGame
    \/ CallStartLevel
    \/ CallLoadCustomLevel
    \/ CallPauseGame
    \/ CallResumeGame
    \/ CallGameOver
    \/ CallSaveGame
    \/ CallLoadGame

(***************************************************************************)
(* World.pause, resume and setTimeScale around frames of Game.update (the  *)
(* game itself playing, dt = 1/60) on one default GameObject that collides *)
(* with nothing.  Game.update calls world.update and then physics.update   *)
(* with its own deltaTime.                                                 *)
(***************************************************************************)
DefaultGravityScale == 1
TimeScales == {0 - 1, 0, 1}

\* World.setTimeScale
setTimeScale(scale) == IF scale > 0 THEN scale ELSE 0

FreezeInit ==
    /\ vpaused = FALSE
    /\ vtimeScale = 1
    /\ vposy = 0
    /\ vvely = 0
    /\ vaccy = 0
    /\ vworldTime = 0
    /\ vstep = "world"
    /\ vframes = 0
    /\ vcalls = 0

\* World.update: nothing when paused; else the scaled deltaTime is added to
\* the clock and passed to the object's GameObject.update, that is
\* updatePhysics (acceleration into velocity, friction, velocity into
\* position, reset)
FreezeWorldUpdate ==
    /\ vstep = "world"
    /\ vframes < MaxFreezeFrames
    /\ IF vpaused
       THEN UNCHANGED <<vposy, vvely, vaccy, vworldTime>>
       ELSE LET v1 == Frac(vvely + vtimeScale * (vaccy \div FramesPerSecond), 8, 10)
            IN  /\ vvely' = v1
                /\ vposy' = vposy + vtimeScale * SubSteps * v1
                /\ vaccy' = 0
                /\ vworldTime' = vworldTime + vtimeScale
    /\ vstep' = "physics"
    /\ UNCHANGED <<vpaused, vtimeScale, vframes, vcalls>>
    /\ UNCHANGED notFreeze

\* Physics.update(world, deltaTime): applyGravity, then the sub-steps
FreezePhysicsUpdate ==
    /\ vstep = "physics"
    /\ LET g == applyGravity(DefaultGravityScale, vvely, vaccy)
           r == physicsSubSteps(SubSteps, DefaultGravityScale, vposy, g.vy, g.ay)
       IN  /\ vposy' = r.y
           /\ vvely' = r.v
           /\ vaccy' = r.a
    /\ vstep' = "world"
    /\ vframes' = vframes + 1
    /\ UNCHANGED <<vpaused, vtimeScale, vworldTime, vcalls>>
    /\ UNCHANGED notFreeze

\* World.pause between two frames
FreezePause ==
    /\ vstep = "world"
    /\ vcalls < MaxFreezeCalls
    /\ vpaused' = TRUE
    /\ vcalls' = vcalls + 1
    /\ UNCHANGED <<vtimeScale, vposy, vvely, vaccy, vworldTime, vstep, vframes>>
    /\ UNCHANGED notFreeze

\* World.resume between two frames
FreezeResume ==
    /\ vstep = "world"
    /\ vcalls < MaxFreezeCalls
    /\ vpaused' = FALSE
    /\ vcalls' = vcalls + 1
    /\ UNCHANGED <<vtimeScale, vposy, vvely, vaccy, vworldTime, vstep, vframes>>
    /\ UNCHANGED notFreeze

\* World.setTimeScale(scale) between two frames
FreezeSetTimeScale(scale) ==
    /\ vstep = "world"
    /\ vcalls < MaxFreezeCalls
    /\ vtimeScale' = setTimeScale(scale)
    /\ vcalls' = vcalls + 1
    /\ UNCHANGED <<vpaused, vposy, vvely, vaccy, vworldTime, vstep, vframes>>
    /\ UNCHANGED notFreeze

FreezeNext ==
    \/ FreezeWorldUpdate
    \/ FreezePhysicsUpdate
    \/ FreezePause
    \/ FreezeResume
    \/ \E scale \in TimeScales : FreezeSetTimeScale(scale)

(***************************************************************************)
(* Jumping in the air: the player stood on a platform (at rest, grounded,  *)
(* jump counters 0) and has just walked over its edge; nothing is below    *)
(* it, so it does not land again.  doubleJump is unlocked, tripleJump is   *)
(* unlocked or not, the other abilities are locked.  Frames of Game.update *)
(* at dt = 1/60: the player's GameObject.update, then Physics.update.      *)
(***************************************************************************)

\* the ability table with doubleJump unlocked, and tripleJump when triple
jumpAbilities(triple) ==
    [n \in AbilityNames |->
        IF n = "doubleJump" \/ (n = "tripleJump" /\ triple)
        THEN [addAbility(AbilityProps(n)) EXCEPT !.enabled = TRUE, !.level = 1]
        ELSE addAbility(AbilityProps(n))]

\* Player.handleJumpInput: jd and jh are isActionDown and isActionPressed
\* of 'jump'; isOnWall is always false
handleJumpInput(p, jd, jh) ==
    LET buf == IF jd THEN CoyoteFrames ELSE p.buf
        ground == buf > 0 /\ (p.grounded \/ p.last < CoyoteFrames)
        multi == ~ground /\ jd /\ ~p.grounded /\ canMultiJump(p.ab)
        j == IF ground THEN performJump(p.ab, [x |-> 0, y |-> p.vel])
             ELSE IF multi THEN performMultiJump(p.ab, [x |-> 0, y |-> p.vel])
             ELSE [ab |-> p.ab, vel |-> [x |-> 0, y |-> p.vel]]
    IN  [ab |-> j.ab,
         vel |-> IF ~jh /\ j.vel.y < 0 THEN Frac(j.vel.y, 6, 10) ELSE j.vel.y,
         grounded |-> IF ground THEN FALSE ELSE p.grounded,
         last |-> IF ground THEN CoyoteFrames ELSE p.last,
         buf |-> IF ground THEN 0 ELSE buf,
         multi |-> multi]

\* Player.updatePhysicsState
updatePhysicsState(p) ==
    IF Abs(p.vel) < VScale
    THEN [p EXCEPT !.grounded = TRUE, !.last = 0,
                   !.ab = [n \in AbilityNames |->
                             IF n \in {"doubleJump", "tripleJump"} /\ hasAbility(p.ab, n)
                             THEN [p.ab[n] EXCEPT !.currentJumps = 0] ELSE p.ab[n]]]
    ELSE [p EXCEPT !.grounded = FALSE]

JumpInit ==
    /\ xab \in {jumpAbilities(triple) : triple \in BOOLEAN}
    /\ xvel = 0
    /\ xacc = 0
    /\ xgrounded = TRUE
    /\ xlast = 0
    /\ xbuf = 0
    /\ xmulti = 0
    /\ xstep = "world"
    /\ xframes = 0

\* World.update: the player's GameObject.update: updatePhysics (friction
\* 0.15), then Player.onUpdate: updateTimers, handleJumpInput,
\* updatePhysicsState
JumpWorldUpdate(jd, jh) ==
    /\ xstep = "world"
    /\ xframes < MaxJumpFrames
    /\ LET v0 == Frac(xvel + (xacc \div FramesPerSecond), 15, 100)
           p0 == [ab |-> xab, vel |-> v0, grounded |-> xgrounded,
                  last |-> IF ~xgrounded THEN Min(xlast + 1, CoyoteFrames) ELSE xlast,
                  buf |-> IF xbuf > 0 THEN xbuf - 1 ELSE xbuf]
           j == handleJumpInput(p0, jd, jh)
           q == updatePhysicsState([ab |-> j.ab, vel |-> j.vel,
                                    grounded |-> j.grounded, last |-> j.last])
       IN  /\ xab' = q.ab
           /\ xvel' = q.vel
           /\ xgrounded' = q.grounded
           /\ xlast' = q.last
           /\ xbuf' = j.buf
           /\ xmulti' = IF j.multi THEN xmulti + 1 ELSE xmulti
    /\ xacc' = 0
    /\ xstep' = "physics"
    /\ UNCHANGED xframes
    /\ UNCHANGED notJump

\* Physics.update: applyGravity, then the sub-steps with no collision
JumpPhysicsUpdate ==
    /\ xstep = "physics"
    /\ LET g == applyGravity(DefaultGravityScale, xvel, xacc)
           r == fallSubSteps(SubSteps, 0, g.vy, g.ay)
       IN  /\ xvel' = r.v
           /\ xacc' = r.a
    /\ xstep' = "world"
    /\ xframes' = xframes + 1
    /\ UNCHANGED <<xab, xgrounded, xlast, xbuf, xmulti>>
    /\ UNCHANGED notJump

JumpNext ==
    \/ \E jd \in BOOLEAN, jh \in BOOLEAN : JumpWorldUpdate(jd, jh)
    \/ JumpPhysicsUpdate

(***************************************************************************)
(* World.addEventListener, removeEventListener and triggerEvent for one    *)
(* event type.  A callback, when invoked, does nothing to the listeners,   *)
(* removes a listener, or adds one (while fewer than MaxListeners are      *)
(* registered).                                                            *)
(***************************************************************************)
Callbacks == 1..NCallbacks
CallbackSteps ==
    {[kind |-> "none", arg |-> 0]}
        \cup {[kind |-> k, arg |-> c] : k \in {"remove", "add"}, c \in Callbacks}

\* World.addEventListener
addEventListener(ls, c) == Append(ls, c)

\* World.removeEventListener
removeEventListener(ls, c) ==
    IF IndexOf(ls, c) # 0 THEN Splice(ls, IndexOf(ls, c)) ELSE ls

\* what the invoked callback does to the list
runCallback(ls, step) ==
    IF step.kind = "remove" THEN removeEventListener(ls, step.arg)
    ELSE IF step.kind = "add" /\ Len(ls) < MaxListeners
    THEN addEventListener(ls, step.arg)
    ELSE ls

\* World.triggerEvent: 'for (const callback of callbacks) callback(data)'
\* on the stored array itself, from position i on; the iterator reads the
\* array's current length and element at every step
RECURSIVE triggerEvent(_, _, _, _)
triggerEvent(ls, i, called, steps) ==
    IF i > Len(ls) THEN [listeners |-> ls, called |-> called]
    ELSE triggerEvent(runCallback(ls, steps[ls[i]]), i + 1,
                      Append(called, ls[i]), steps)

EventInit ==
    /\ olisteners = <<>>
    /\ ostart = <<>>
    /\ ocalled = <<>>
    /\ oop = "new"
    /\ ocount = 0

CallAddEventListener(c) ==
    /\ ocount < MaxEventCalls
    /\ Len(olisteners) < MaxListeners
    /\ olisteners' = addEventListener(olisteners, c)
    /\ oop' = "addEventListener"
    /\ ocount' = ocount + 1
    /\ UNCHANGED <<ostart, ocalled>>
    /\ UNCHANGED notEvent

CallRemoveEventListener(c) ==
    /\ ocount < MaxEventCalls
    /\ olisteners' = removeEventListener(olisteners, c)
    /\ oop' = "removeEventListener"
    /\ ocount' = ocount + 1
    /\ UNCHANGED <<ostart, ocalled>>
    /\ UNCHANGED notEvent

CallTriggerEvent(steps) ==
    /\ ocount < MaxEventCalls
    /\ LET r == triggerEvent(olisteners, 1, <<>>, steps)
       IN  /\ olisteners' = r.listeners
           /\ ocalled' = r.called
    /\ ostart' = olisteners
    /\ oop' = "triggerEvent"
    /\ ocount' = ocount + 1
    /\ UNCHANGED notEvent

EventNext ==
    \/ \E c \in Callbacks : CallAddEventListener(c)
    \/ \E c \in Callbacks : CallRemoveEventListener(c)
    \/ \E steps \in [Callbacks -> CallbackSteps] : CallTriggerEvent(steps)

(***************************************************************************)
(* GameObject.update on a default object (mass 1, friction 0.8, no         *)
(* component, no current animation) of a class that overrides onUpdate, at *)
(* dt = 1/60.  The hook does nothing, sets the velocity (as the player's   *)
(* and the enemy's hooks do) or calls addForce with the force of gravity.  *)
(***************************************************************************)
HookSteps == {"none", "setVelocity", "addForce"}

\* GameObject.updateAnimation: returns at once without a current animation
updateAnimation(o) == [o EXCEPT !.trace = Append(o.trace, "updateAnimation")]

\* GameObject.updatePhysics
updatePhysics(o) ==
    LET v1 == Frac(o.vel + (o.acc \div FramesPerSecond), 8, 10)
    IN  [o EXCEPT !.vel = v1, !.pos = o.pos + SubSteps * v1, !.acc = 0,
                  !.trace = Append(o.trace, "updatePhysics")]

\* the subclass's onUpdate
onUpdate(o, hook) ==
    LET p == [o EXCEPT !.trace = Append(o.trace, "onUpdate")]
    IN  IF hook = "setVelocity" THEN [p EXCEPT !.vel = BaseSpeed * VScale]
        ELSE IF hook = "addForce" THEN [p EXCEPT !.acc = p.acc + DefaultGravity * VScale]
        ELSE p

\* GameObject.update
objectUpdate(o, hook) ==
    IF ~o.active \/ o.destroyed THEN o
    ELSE onUpdate(updatePhysics(updateAnimation(o)), hook)

ObjectRec == [active |-> yactive, destroyed |-> ydestroyed, pos |-> ypos,
              vel |-> yvel, acc |-> yacc, trace |-> <<>>]

OrderInit ==
    /\ yactive = TRUE
    /\ ydestroyed = FALSE
    /\ ypos = 0
    /\ yvel = 0
    /\ yacc = 0
    /\ ytrace = <<>>
    /\ ypre = ObjectRec
    /\ yop = "new"
    /\ ycount = 0

\* World.updateGameObjects or game code calls obj.update(dt)
CallUpdate(hook) ==
    /\ ycount < MaxOrderCalls
    /\ LET o == objectUpdate(ObjectRec, hook)
       IN  /\ ypos' = o.pos
           /\ yvel' = o.vel
           /\ yacc' = o.acc
           /\ ytrace' = o.trace
    /\ ypre' = ObjectRec
    /\ yop' = "update"
    /\ ycount' = ycount + 1
    /\ UNCHANGED <<yactive, ydestroyed>>
    /\ UNCHANGED notOrder

\* game code sets obj.active
SetActive(b) ==
    /\ ycount < MaxOrderCalls
    /\ yactive' = b
    /\ yop' = "active"
    /\ ycount' = ycount + 1
    /\ UNCHANGED <<ydestroyed, ypos, yvel, yacc, ytrace, ypre>>
    /\ UNCHANGED notOrder

\* GameObject.destroy
ObjectDestroy ==
    /\ ycount < MaxOrderCalls
    /\ ydestroyed' = TRUE
    /\ yactive' = FALSE
    /\ yop' = "destroy"
    /\ ycount' = ycount + 1
    /\ UNCHANGED <<ypos, yvel, yacc, ytrace, ypre>>
    /\ UNCHANGED notOrder

\* GameObject.addForce between two updates (as Physics.applyGravity does)
ObjectAddForce ==
    /\ ycount < MaxOrderCalls
    /\ yacc' = yacc + DefaultGravity * VScale
    /\ yop' = "addForce"
    /\ ycount' = ycount + 1
    /\ UNCHANGED <<yactive, ydestroyed, ypos, yvel, ytrace, ypre>>
    /\ UNCHANGED notOrder

OrderNext ==
    \/ \E hook \in HookSteps : CallUpdate(hook)
    \/ \E b \in BOOLEAN : SetActive(b)
    \/ ObjectDestroy
    \/ ObjectAddForce

(***************************************************************************)
(* Physics.detectCollisions on one pair the broad phase returned: two      *)
(* objects of the shipped classes with the layers, mask, solid and         *)
(* isTrigger their constructors set ("default" is a plain GameObject or a  *)
(* Projectile, "solid" and "platform" are the two kinds of Platform).      *)
(***************************************************************************)
LayerKinds == {"default", "player", "enemy", "pickup", "solid", "platform",
               "checkpoint"}

\* obj.collisionLayers
collisionLayers(kind) ==
    IF kind \in {"default", "checkpoint"} THEN {"default"} ELSE {kind}

\* obj.collisionMask
collisionMask(kind) ==
    IF kind = "player" THEN {"solid", "platform", "enemy", "pickup", "hazard"}
    ELSE IF kind = "enemy" THEN {"solid", "platform", "player", "projectile"}
    ELSE IF kind = "pickup" THEN {"player"}
    ELSE {"default"}

\* obj.solid and obj.isTrigger
isSolid(kind) == kind \notin {"pickup", "platform"}
isTrigger(kind) == kind \in {"pickup", "checkpoint"}

\* Physics.setupDefaultCollisionLayers: the collision matrix
collisionMatrix ==
    [l \in {"player", "enemy", "projectile", "pickup", "solid", "platform"} |->
        IF l = "player" THEN {"solid", "platform", "enemy", "pickup"}
        ELSE IF l = "enemy" THEN {"solid", "platform", "player", "projectile"}
        ELSE IF l = "projectile" THEN {"solid", "enemy"}
        ELSE IF l = "pickup" THEN {"player"}
        ELSE IF l = "solid" THEN {"player", "enemy", "projectile"}
        ELSE {"player", "enemy"}]

\* Physics.canLayersCollide: falsy for a layer the matrix does not hold
canLayersCollide(layer1, layer2) ==
    layer1 \in DOMAIN collisionMatrix /\ layer2 \in collisionMatrix[layer1]

\* Physics.shouldCheckCollision for two distinct objects; destroy() also
\* clears active
shouldCheckLayers(kindA, kindB, deadA, deadB) ==
    IF deadA \/ deadB THEN FALSE
    ELSE IF ~isSolid(kindA) /\ ~isSolid(kindB) /\ ~isTrigger(kindA) /\ ~isTrigger(kindB)
    THEN FALSE
    ELSE \E layerA \in collisionLayers(kindA), layerB \in collisionLayers(kindB) :
            layerB \in collisionMask(kindA) \/ layerA \in collisionMask(kindB)

LayerInit ==
    /\ ckindA = "none"
    /\ ckindB = "none"
    /\ cdead = {}
    /\ ctested = FALSE
    /\ cphase = "empty"
    /\ csteps = 0

\* two objects are made where their boxes overlap
LayerPlace(kindA, kindB) ==
    /\ cphase = "empty"
    /\ ckindA' = kindA
    /\ ckindB' = kindB
    /\ cphase' = "placed"
    /\ UNCHANGED <<cdead, ctested, csteps>>
    /\ UNCHANGED notLayer

\* GameObject.destroy on one of them
LayerDestroy(which) ==
    /\ cphase # "empty"
    /\ which \notin cdead
    /\ cdead' = cdead \cup {which}
    /\ UNCHANGED <<ckindA, ckindB, ctested, cphase, csteps>>
    /\ UNCHANGED notLayer

\* Physics.detectCollisions: the narrow phase for the pair
LayerDetect ==
    /\ cphase # "empty"
    /\ csteps < MaxLayerSteps
    /\ ctested' = shouldCheckLayers(ckindA, ckindB, "A" \in cdead, "B" \in cdead)
    /\ cphase' = "detected"
    /\ csteps' = csteps + 1
    /\ UNCHANGED <<ckindA, ckindB, cdead>>
    /\ UNCHANGED notLayer

LayerNext ==
    \/ \E kindA \in LayerKinds, kindB \in LayerKinds : LayerPlace(kindA, kindB)
    \/ \E which \in {"A", "B"} : LayerDestroy(which)
    \/ LayerDetect

(***************************************************************************)
(* The terminal-velocity clamp: one default GameObject (mass 1, friction   *)
(* 0.8, gravityScale 1) that collides with nothing and is launched         *)
(* downwards with addImpulse; frames of Game.update at dt = 1/60 or the    *)
(* capped 1/30.                                                            *)
(***************************************************************************)
Impulses == {TerminalVelocity \div 2, TerminalVelocity * 2}
TerminalDeltas == {1, 2}

\* Physics.integrateVelocity in the sub-steps of a frame of delta/60 s: the
\* first sub-step adds acceleration * dt / subSteps and resets acceleration
integrateVelocity(v, a, delta) == v + delta * (a \div (SubSteps * FramesPerSecond))

\* Physics.update for the object: applyGravity, then the sub-steps
terminalPhysics(v, a, delta) ==
    LET g == applyGravity(DefaultGravityScale, v, a)
    IN  [v |-> integrateVelocity(g.vy, g.ay, delta), a |-> 0]

TerminalInit ==
    /\ wvel = 0
    /\ wacc = 0
    /\ wdelta = 1
    /\ wstep = "world"
    /\ wlast = "new"
    /\ wframes = 0
    /\ wimpulses = 0

\* World.update: the object's GameObject.update, that is updatePhysics
TerminalWorldUpdate(delta) ==
    /\ wstep = "world"
    /\ wframes < MaxTerminalFrames
    /\ wvel' = Frac(wvel + delta * (wacc \div FramesPerSecond), 8, 10)
    /\ wacc' = 0
    /\ wdelta' = delta
    /\ wstep' = "physics"
    /\ wlast' = "world"
    /\ UNCHANGED <<wframes, wimpulses>>
    /\ UNCHANGED notTerminal

\* Physics.update(world, deltaTime)
TerminalPhysicsUpdate ==
    /\ wstep = "physics"
    /\ LET r == terminalPhysics(wvel, wacc, wdelta)
       IN  /\ wvel' = r.v
           /\ wacc' = r.a
    /\ wstep' = "world"
    /\ wlast' = "physics"
    /\ wframes' = wframes + 1
    /\ UNCHANGED <<wdelta, wimpulses>>
    /\ UNCHANGED notTerminal

\* between two frames something calls obj.addImpulse(j)
TerminalAddImpulse(j) ==
    /\ wstep = "world"
    /\ wimpulses < MaxImpulses
    /\ wvel' = wvel + j * VScale
    /\ wimpulses' = wimpulses + 1
    /\ wlast' = "addImpulse"
    /\ UNCHANGED <<wacc, wdelta, wstep, wframes>>
    /\ UNCHANGED notTerminal

TerminalNext ==
    \/ \E delta \in TerminalDeltas : TerminalWorldUpdate(delta)
    \/ TerminalPhysicsUpdate
    \/ \E j \in Impulses : TerminalAddImpulse(j)

(***************************************************************************)
(* Specifications: each runs one subsystem and leaves the others at rest.   *)
(***************************************************************************)
BoxIdle ==
    /\ bpos = [b \in {"A", "B"} |-> [x |-> 0, y |-> 0]]
    /\ bvel = [b \in {"A", "B"} |-> [x |-> 0, y |-> 0]]
    /\ bmass = [b \in {"A", "B"} |-> 1]
    /\ bsolid = [b \in {"A", "B"} |-> TRUE]
    /\ btrigger = [b \in {"A", "B"} |-> FALSE]
    /\ bphase = "idle"
    /\ bhit = [hit |-> FALSE, nx |-> 0, ny |-> 0, pen |-> 0]
    /\ bpos0 = bpos

TrigIdle ==
    /\ mx = 0
    /\ mv = 0
    /\ tshare = FALSE
    /\ tsub = 0
    /\ tphase = "idle"
    /\ tcalls = 0
    /\ tframes = 0
    /\ thasCb = FALSE

PlayerIdle ==
    /\ pab = [n \in AbilityNames |-> addAbility(AbilityProps(n))]
    /\ pvel = [x |-> 0, y |-> 0]
    /\ pfacing = 1
    /\ pgrav = 10
    /\ pgrounded = FALSE
    /\ pjumpBuf = 0
    /\ plastGround = 0
    /\ ptimers = 0
    /\ pop = "idle"
    /\ pcount = 0

GridIdle ==
    /\ gid = [o \in GObjs |-> AutoId(o)]
    /\ gx = [o \in GObjs |-> 0]
    /\ gdead = {}
    /\ grid = <<>>
    /\ gpairs = <<>>
    /\ gphase = "off"

RayIdle ==
    /\ rox = 0
    /\ roy = 0
    /\ rdir = 1
    /\ rmax = 0
    /\ rbx = 0
    /\ rres = Returned(<<>>)
    /\ rphase = "off"

FallIdle ==
    /\ fstate = "off"
    /\ fcollision = {}
    /\ fobjects = <<>>
    /\ ftoAdd = <<>>
    /\ fy = 0
    /\ fvy = 0
    /\ fay = 0
    /\ fgravity = DefaultGravity
    /\ fgrounded = FALSE
    /\ fstep = "world"
    /\ fframes = 0

EnemyIdle ==
    /\ ex = 0
    /\ evx = 0
    /\ edir = 1
    /\ etimer = 0
    /\ eprevDist = 0
    /\ edist = 0
    /\ eflipped = FALSE
    /\ etimedOut = FALSE
    /\ eframes = -1

SaveIdle ==
    /\ scur = "null"
    /\ sarr = FALSE
    /\ scps = {}
    /\ scp = "null"
    /\ sflags = {}
    /\ scoll = {}
    /\ stime = 0
    /\ ssnap = NoSnapshot
    /\ sres = "none"
    /\ sop = "off"

LevelIdle ==
    /\ ldesc = [hasCollision |-> TRUE, hasEntities |-> TRUE, entities |-> <<>>,
                checkpoints |-> 0]
    /\ lphase = "off"
    /\ lres = "none"
    /\ lcps = 0
    /\ lents = <<>>
    /\ lspawn = FALSE
    /\ lasync = "none"

UpdateIdle ==
    /\ ukinds = <<>>
    /\ uactive = {}
    /\ uupdated = {}
    /\ uphysics = FALSE
    /\ upc = "off"

DamageIdle ==
    /\ dhealth = 0
    /\ dlives = 0
    /\ dinv = 0
    /\ dvel = 0
    /\ dres = "off"
    /\ dop = "off"
    /\ dpre = NoDamageCall

HoverIdle ==
    /\ hscale = 0
    /\ hy = 0
    /\ hvy = 0
    /\ hay = 0
    /\ hstart = [y |-> 0, vy |-> 0]
    /\ hforced = FALSE
    /\ hstep = "off"
    /\ hframes = 0

ReloadIdle ==
    /\ rspawn = <<>>
    /\ rcur = "off"
    /\ rarrays = FALSE
    /\ rimports = <<>>
    /\ rtoAdd = <<>>
    /\ rlive = <<>>
    /\ rloads = 0

PickupIdle ==
    /\ kpower = [wrapped |-> FALSE, type |-> "none"]
    /\ kpx = 0
    /\ khealth = 0
    /\ kscore = 0
    /\ kunlocked = {}
    /\ kapplied = 0
    /\ kcollected = FALSE
    /\ kdestroyed = FALSE
    /\ kmet = FALSE
    /\ ksteps = 0

InputIdle ==
    /\ ikeys = {}
    /\ ikeysDown = {}
    /\ ipending = FALSE
    /\ ipressed = FALSE
    /\ iseen = FALSE
    /\ iframes = 0 - 1

AiIdle ==
    /\ aphysics = FALSE
    /\ apx = 0
    /\ aex = 0
    /\ avx = 0
    /\ astate = "off"
    /\ alast = <<>>
    /\ adir = 1
    /\ atimer = 0
    /\ aprev = "off"
    /\ asight = FALSE
    /\ ares = "off"
    /\ aframes = 0

CrumbleIdle ==
    /\ qtype = "none"
    /\ qhealth = 0
    /\ qtimers = <<>>
    /\ qeffects = 0
    /\ qdestroys = 0
    /\ qdestroyed = FALSE
    /\ qhits = 0
    /\ qtime = 0

RecordsIdle ==
    /\ zhook = <<>>
    /\ zpairs = <<>>
    /\ zdestroyed = {}
    /\ zcalls = <<>>
    /\ zlate = {}
    /\ zphase = "off"
    /\ zsteps = 0

StunIdle ==
    /\ nhealth = 0
    /\ nstate = "none"
    /\ ndestroyed = FALSE
    /\ ntimers = <<>>
    /\ nsince = -1
    /\ nearly = FALSE
    /\ nposthumous = FALSE
    /\ nupdates = 0
    /\ ntime = 0

GameIdle ==
    /\ jstate = "none"
    /\ jpaused = FALSE
    /\ jarr = FALSE
    /\ jcur = FALSE
    /\ jsave = "none"
    /\ jres = "none"
    /\ jcount = 0

FreezeIdle ==
    /\ vpaused = FALSE
    /\ vtimeScale = 0
    /\ vposy = 0
    /\ vvely = 0
    /\ vaccy = 0
    /\ vworldTime = 0
    /\ vstep = "off"
    /\ vframes = 0
    /\ vcalls = 0

JumpIdle ==
    /\ xab = <<>>
    /\ xvel = 0
    /\ xacc = 0
    /\ xgrounded = FALSE
    /\ xlast = 0
    /\ xbuf = 0
    /\ xmulti = 0
    /\ xstep = "off"
    /\ xframes = 0

EventIdle ==
    /\ olisteners = <<>>
    /\ ostart = <<>>
    /\ ocalled = <<>>
    /\ oop = "none"
    /\ ocount = 0

OrderIdle ==
    /\ yactive = FALSE
    /\ ydestroyed = FALSE
    /\ ypos = 0
    /\ yvel = 0
    /\ yacc = 0
    /\ ytrace = <<>>
    /\ ypre = <<>>
    /\ yop = "none"
    /\ ycount = 0

LayerIdle ==
    /\ ckindA = "none"
    /\ ckindB = "none"
    /\ cdead = {}
    /\ ctested = FALSE
    /\ cphase = "off"
    /\ csteps = 0

TerminalIdle ==
    /\ wvel = 0
    /\ wacc = 0
    /\ wdelta = 0
    /\ wstep = "off"
    /\ wlast = "none"
    /\ wframes = 0
    /\ wimpulses = 0

\* the world and the frame loop
Init ==
    /\ WorldInit
    /\ BoxIdle
    /\ TrigIdle
    /\ PlayerIdle
    /\ GridIdle
    /\ RayIdle
    /\ FallIdle
    /\ EnemyIdle
    /\ SaveIdle
    /\ LevelIdle
    /\ UpdateIdle
    /\ DamageIdle
    /\ HoverIdle
    /\ ReloadIdle
    /\ PickupIdle
    /\ InputIdle
    /\ AiIdle
    /\ CrumbleIdle
    /\ RecordsIdle
    /\ StunIdle
    /\ GameIdle
    /\ FreezeIdle
    /\ JumpIdle
    /\ EventIdle
    /\ OrderIdle
    /\ LayerIdle
    /\ TerminalIdle
Spec == Init /\ [][WorldNext]_vars

\* one resolution pass over a pair of boxes
InitBox ==
    /\ BoxInit
    /\ WorldInit
    /\ TrigIdle
    /\ PlayerIdle
    /\ GridIdle
    /\ RayIdle
    /\ FallIdle
    /\ EnemyIdle
    /\ SaveIdle
    /\ LevelIdle
    /\ UpdateIdle
    /\ DamageIdle
    /\ HoverIdle
    /\ ReloadIdle
    /\ PickupIdle
    /\ InputIdle
    /\ AiIdle
    /\ CrumbleIdle
    /\ RecordsIdle
    /\ StunIdle
    /\ GameIdle
    /\ FreezeIdle
    /\ JumpIdle
    /\ EventIdle
    /\ OrderIdle
    /\ LayerIdle
    /\ TerminalIdle
SpecBox == InitBox /\ [][BoxNext]_vars

\* frames of Physics.update over a trigger and a moving object
InitTrig ==
    /\ TrigInit
    /\ WorldInit
    /\ BoxIdle
    /\ PlayerIdle
    /\ GridIdle
    /\ RayIdle
    /\ FallIdle
    /\ EnemyIdle
    /\ SaveIdle
    /\ LevelIdle
    /\ UpdateIdle
    /\ DamageIdle
    /\ HoverIdle
    /\ ReloadIdle
    /\ PickupIdle
    /\ InputIdle
    /\ AiIdle
    /\ CrumbleIdle
    /\ RecordsIdle
    /\ StunIdle
    /\ GameIdle
    /\ FreezeIdle
    /\ JumpIdle
    /\ EventIdle
    /\ OrderIdle
    /\ LayerIdle
    /\ TerminalIdle
SpecTrig == InitTrig /\ [][TrigNext]_vars

\* the player's ability table and per-frame update
InitPlayer ==
    /\ PlayerInit
    /\ WorldInit
    /\ BoxIdle
    /\ TrigIdle
    /\ GridIdle
    /\ RayIdle
    /\ FallIdle
    /\ EnemyIdle
    /\ SaveIdle
    /\ LevelIdle
    /\ UpdateIdle
    /\ DamageIdle
    /\ HoverIdle
    /\ ReloadIdle
    /\ PickupIdle
    /\ InputIdle
    /\ AiIdle
    /\ CrumbleIdle
    /\ RecordsIdle
    /\ StunIdle
    /\ GameIdle
    /\ FreezeIdle
    /\ JumpIdle
    /\ EventIdle
    /\ OrderIdle
    /\ LayerIdle
    /\ TerminalIdle
SpecPlayer == InitPlayer /\ [][PlayerNext]_vars

\* the spatial grid's broad phase over objects with ids
InitGrid ==
    /\ GridInit
    /\ WorldInit
    /\ BoxIdle
    /\ TrigIdle
    /\ PlayerIdle
    /\ RayIdle
    /\ FallIdle
    /\ EnemyIdle
    /\ SaveIdle
    /\ LevelIdle
    /\ UpdateIdle
    /\ DamageIdle
    /\ HoverIdle
    /\ ReloadIdle
    /\ PickupIdle
    /\ InputIdle
    /\ AiIdle
    /\ CrumbleIdle
    /\ RecordsIdle
    /\ StunIdle
    /\ GameIdle
    /\ FreezeIdle
    /\ JumpIdle
    /\ EventIdle
    /\ OrderIdle
    /\ LayerIdle
    /\ TerminalIdle
SpecGrid == InitGrid /\ [][GridNext]_vars

\* raycast calls against one box
InitRay ==
    /\ RayInit
    /\ WorldInit
    /\ BoxIdle
    /\ TrigIdle
    /\ PlayerIdle
    /\ GridIdle
    /\ FallIdle
    /\ EnemyIdle
    /\ SaveIdle
    /\ LevelIdle
    /\ UpdateIdle
    /\ DamageIdle
    /\ HoverIdle
    /\ ReloadIdle
    /\ PickupIdle
    /\ InputIdle
    /\ AiIdle
    /\ CrumbleIdle
    /\ RecordsIdle
    /\ StunIdle
    /\ GameIdle
    /\ FreezeIdle
    /\ JumpIdle
    /\ EventIdle
    /\ OrderIdle
    /\ LayerIdle
    /\ TerminalIdle
SpecRay == InitRay /\ [][RayNext]_vars

\* a level start and the frames of the fall; every frame is eventually stepped
InitFall ==
    /\ FallInit
    /\ WorldInit
    /\ BoxIdle
    /\ TrigIdle
    /\ PlayerIdle
    /\ GridIdle
    /\ RayIdle
    /\ EnemyIdle
    /\ SaveIdle
    /\ LevelIdle
    /\ UpdateIdle
    /\ DamageIdle
    /\ HoverIdle
    /\ ReloadIdle
    /\ PickupIdle
    /\ InputIdle
    /\ AiIdle
    /\ CrumbleIdle
    /\ RecordsIdle
    /\ StunIdle
    /\ GameIdle
    /\ FreezeIdle
    /\ JumpIdle
    /\ EventIdle
    /\ OrderIdle
    /\ LayerIdle
    /\ TerminalIdle
SpecFall == InitFall /\ [][FallNext]_vars /\ WF_vars(FallNext)

\* frames of one patrolling enemy
InitEnemy ==
    /\ EnemyInit
    /\ WorldInit
    /\ BoxIdle
    /\ TrigIdle
    /\ PlayerIdle
    /\ GridIdle
    /\ RayIdle
    /\ FallIdle
    /\ SaveIdle
    /\ LevelIdle
    /\ UpdateIdle
    /\ DamageIdle
    /\ HoverIdle
    /\ ReloadIdle
    /\ PickupIdle
    /\ InputIdle
    /\ AiIdle
    /\ CrumbleIdle
    /\ RecordsIdle
    /\ StunIdle
    /\ GameIdle
    /\ FreezeIdle
    /\ JumpIdle
    /\ EventIdle
    /\ OrderIdle
    /\ LayerIdle
    /\ TerminalIdle
SpecEnemy == InitEnemy /\ [][EnemyNext]_vars

\* saving and restoring the world state
InitSave ==
    /\ SaveInit
    /\ WorldInit
    /\ BoxIdle
    /\ TrigIdle
    /\ PlayerIdle
    /\ GridIdle
    /\ RayIdle
    /\ FallIdle
    /\ EnemyIdle
    /\ LevelIdle
    /\ UpdateIdle
    /\ DamageIdle
    /\ HoverIdle
    /\ ReloadIdle
    /\ PickupIdle
    /\ InputIdle
    /\ AiIdle
    /\ CrumbleIdle
    /\ RecordsIdle
    /\ StunIdle
    /\ GameIdle
    /\ FreezeIdle
    /\ JumpIdle
    /\ EventIdle
    /\ OrderIdle
    /\ LayerIdle
    /\ TerminalIdle
SpecSave == InitSave /\ [][SaveNext]_vars

\* loadLevel on well-formed and malformed level descriptions
InitLevel ==
    /\ LevelInit
    /\ WorldInit
    /\ BoxIdle
    /\ TrigIdle
    /\ PlayerIdle
    /\ GridIdle
    /\ RayIdle
    /\ FallIdle
    /\ EnemyIdle
    /\ SaveIdle
    /\ UpdateIdle
    /\ DamageIdle
    /\ HoverIdle
    /\ ReloadIdle
    /\ PickupIdle
    /\ InputIdle
    /\ AiIdle
    /\ CrumbleIdle
    /\ RecordsIdle
    /\ StunIdle
    /\ GameIdle
    /\ FreezeIdle
    /\ JumpIdle
    /\ EventIdle
    /\ OrderIdle
    /\ LayerIdle
    /\ TerminalIdle
SpecLevel == InitLevel /\ [][LevelNext]_vars

\* frames over objects of which some throw in update
InitUpdate ==
    /\ UpdateInit
    /\ WorldInit
    /\ BoxIdle
    /\ TrigIdle
    /\ PlayerIdle
    /\ GridIdle
    /\ RayIdle
    /\ FallIdle
    /\ EnemyIdle
    /\ SaveIdle
    /\ LevelIdle
    /\ DamageIdle
    /\ HoverIdle
    /\ ReloadIdle
    /\ PickupIdle
    /\ InputIdle
    /\ AiIdle
    /\ CrumbleIdle
    /\ RecordsIdle
    /\ StunIdle
    /\ GameIdle
    /\ FreezeIdle
    /\ JumpIdle
    /\ EventIdle
    /\ OrderIdle
    /\ LayerIdle
    /\ TerminalIdle
SpecUpdate == InitUpdate /\ [][UpdateNext]_vars

\* the player taking damage
InitDamage ==
    /\ DamageInit
    /\ WorldInit
    /\ BoxIdle
    /\ TrigIdle
    /\ PlayerIdle
    /\ GridIdle
    /\ RayIdle
    /\ FallIdle
    /\ EnemyIdle
    /\ SaveIdle
    /\ LevelIdle
    /\ UpdateIdle
    /\ HoverIdle
    /\ ReloadIdle
    /\ PickupIdle
    /\ InputIdle
    /\ AiIdle
    /\ CrumbleIdle
    /\ RecordsIdle
    /\ StunIdle
    /\ GameIdle
    /\ FreezeIdle
    /\ JumpIdle
    /\ EventIdle
    /\ OrderIdle
    /\ LayerIdle
    /\ TerminalIdle
SpecDamage == InitDamage /\ [][DamageNext]_vars

\* one object with or without gravity
InitHover ==
    /\ HoverInit
    /\ WorldInit
    /\ BoxIdle
    /\ TrigIdle
    /\ PlayerIdle
    /\ GridIdle
    /\ RayIdle
    /\ FallIdle
    /\ EnemyIdle
    /\ SaveIdle
    /\ LevelIdle
    /\ UpdateIdle
    /\ DamageIdle
    /\ ReloadIdle
    /\ PickupIdle
    /\ InputIdle
    /\ AiIdle
    /\ CrumbleIdle
    /\ RecordsIdle
    /\ StunIdle
    /\ GameIdle
    /\ FreezeIdle
    /\ JumpIdle
    /\ EventIdle
    /\ OrderIdle
    /\ LayerIdle
    /\ TerminalIdle
SpecHover == InitHover /\ [][HoverNext]_vars

\* one level loaded after another
InitReload ==
    /\ ReloadInit
    /\ WorldInit
    /\ BoxIdle
    /\ TrigIdle
    /\ PlayerIdle
    /\ GridIdle
    /\ RayIdle
    /\ FallIdle
    /\ EnemyIdle
    /\ SaveIdle
    /\ LevelIdle
    /\ UpdateIdle
    /\ DamageIdle
    /\ HoverIdle
    /\ PickupIdle
    /\ InputIdle
    /\ AiIdle
    /\ CrumbleIdle
    /\ RecordsIdle
    /\ StunIdle
    /\ GameIdle
    /\ FreezeIdle
    /\ JumpIdle
    /\ EventIdle
    /\ OrderIdle
    /\ LayerIdle
    /\ TerminalIdle
SpecReload == InitReload /\ [][ReloadNext]_vars

\* the player and one power-up
InitPickup ==
    /\ PickupInit
    /\ WorldInit
    /\ BoxIdle
    /\ TrigIdle
    /\ PlayerIdle
    /\ GridIdle
    /\ RayIdle
    /\ FallIdle
    /\ EnemyIdle
    /\ SaveIdle
    /\ LevelIdle
    /\ UpdateIdle
    /\ DamageIdle
    /\ HoverIdle
    /\ ReloadIdle
    /\ InputIdle
    /\ AiIdle
    /\ CrumbleIdle
    /\ RecordsIdle
    /\ StunIdle
    /\ GameIdle
    /\ FreezeIdle
    /\ JumpIdle
    /\ EventIdle
    /\ OrderIdle
    /\ LayerIdle
    /\ TerminalIdle
SpecPickup == InitPickup /\ [][PickupNext]_vars

\* key events and the frames that read them
InitInput ==
    /\ InputInit
    /\ WorldInit
    /\ BoxIdle
    /\ TrigIdle
    /\ PlayerIdle
    /\ GridIdle
    /\ RayIdle
    /\ FallIdle
    /\ EnemyIdle
    /\ SaveIdle
    /\ LevelIdle
    /\ UpdateIdle
    /\ DamageIdle
    /\ HoverIdle
    /\ ReloadIdle
    /\ PickupIdle
    /\ AiIdle
    /\ CrumbleIdle
    /\ RecordsIdle
    /\ StunIdle
    /\ GameIdle
    /\ FreezeIdle
    /\ JumpIdle
    /\ EventIdle
    /\ OrderIdle
    /\ LayerIdle
    /\ TerminalIdle
SpecInput == InitInput /\ [][InputNext]_vars

\* an enemy's AI states with a player nearby
InitAi ==
    /\ AiInit
    /\ WorldInit
    /\ BoxIdle
    /\ TrigIdle
    /\ PlayerIdle
    /\ GridIdle
    /\ RayIdle
    /\ FallIdle
    /\ EnemyIdle
    /\ SaveIdle
    /\ LevelIdle
    /\ UpdateIdle
    /\ DamageIdle
    /\ HoverIdle
    /\ ReloadIdle
    /\ PickupIdle
    /\ InputIdle
    /\ CrumbleIdle
    /\ RecordsIdle
    /\ StunIdle
    /\ GameIdle
    /\ FreezeIdle
    /\ JumpIdle
    /\ EventIdle
    /\ OrderIdle
    /\ LayerIdle
    /\ TerminalIdle
SpecAi == InitAi /\ [][AiNext]_vars

\* a platform the player collides with
InitCrumble ==
    /\ CrumbleInit
    /\ WorldInit
    /\ BoxIdle
    /\ TrigIdle
    /\ PlayerIdle
    /\ GridIdle
    /\ RayIdle
    /\ FallIdle
    /\ EnemyIdle
    /\ SaveIdle
    /\ LevelIdle
    /\ UpdateIdle
    /\ DamageIdle
    /\ HoverIdle
    /\ ReloadIdle
    /\ PickupIdle
    /\ InputIdle
    /\ AiIdle
    /\ RecordsIdle
    /\ StunIdle
    /\ GameIdle
    /\ FreezeIdle
    /\ JumpIdle
    /\ EventIdle
    /\ OrderIdle
    /\ LayerIdle
    /\ TerminalIdle
SpecCrumble == InitCrumble /\ [][CrumbleNext]_vars

\* the collision records of a sub-step
InitRecords ==
    /\ RecordsInit
    /\ WorldInit
    /\ BoxIdle
    /\ TrigIdle
    /\ PlayerIdle
    /\ GridIdle
    /\ RayIdle
    /\ FallIdle
    /\ EnemyIdle
    /\ SaveIdle
    /\ LevelIdle
    /\ UpdateIdle
    /\ DamageIdle
    /\ HoverIdle
    /\ ReloadIdle
    /\ PickupIdle
    /\ InputIdle
    /\ AiIdle
    /\ CrumbleIdle
    /\ StunIdle
    /\ GameIdle
    /\ FreezeIdle
    /\ JumpIdle
    /\ EventIdle
    /\ OrderIdle
    /\ LayerIdle
    /\ TerminalIdle
SpecRecords == InitRecords /\ [][RecordsNext]_vars

\* a flying enemy that is hit
InitStun ==
    /\ StunInit
    /\ WorldInit
    /\ BoxIdle
    /\ TrigIdle
    /\ PlayerIdle
    /\ GridIdle
    /\ RayIdle
    /\ FallIdle
    /\ EnemyIdle
    /\ SaveIdle
    /\ LevelIdle
    /\ UpdateIdle
    /\ DamageIdle
    /\ HoverIdle
    /\ ReloadIdle
    /\ PickupIdle
    /\ InputIdle
    /\ AiIdle
    /\ CrumbleIdle
    /\ RecordsIdle
    /\ GameIdle
    /\ FreezeIdle
    /\ JumpIdle
    /\ EventIdle
    /\ OrderIdle
    /\ LayerIdle
    /\ TerminalIdle
SpecStun == InitStun /\ [][StunNext]_vars

\* the game's state machine
InitGame ==
    /\ GameInit
    /\ WorldInit
    /\ BoxIdle
    /\ TrigIdle
    /\ PlayerIdle
    /\ GridIdle
    /\ RayIdle
    /\ FallIdle
    /\ EnemyIdle
    /\ SaveIdle
    /\ LevelIdle
    /\ UpdateIdle
    /\ DamageIdle
    /\ HoverIdle
    /\ ReloadIdle
    /\ PickupIdle
    /\ InputIdle
    /\ AiIdle
    /\ CrumbleIdle
    /\ RecordsIdle
    /\ StunIdle
    /\ FreezeIdle
    /\ JumpIdle
    /\ EventIdle
    /\ OrderIdle
    /\ LayerIdle
    /\ TerminalIdle
SpecGame == InitGame /\ [][GameNext]_vars

\* an object in a world that is paused or slowed
InitFreeze ==
    /\ FreezeInit
    /\ WorldInit
    /\ BoxIdle
    /\ TrigIdle
    /\ PlayerIdle
    /\ GridIdle
    /\ RayIdle
    /\ FallIdle
    /\ EnemyIdle
    /\ SaveIdle
    /\ LevelIdle
    /\ UpdateIdle
    /\ DamageIdle
    /\ HoverIdle
    /\ ReloadIdle
    /\ PickupIdle
    /\ InputIdle
    /\ AiIdle
    /\ CrumbleIdle
    /\ RecordsIdle
    /\ StunIdle
    /\ GameIdle
    /\ JumpIdle
    /\ EventIdle
    /\ OrderIdle
    /\ LayerIdle
    /\ TerminalIdle
SpecFreeze == InitFreeze /\ [][FreezeNext]_vars

\* a player in the air that jumps
InitJump ==
    /\ JumpInit
    /\ WorldInit
    /\ BoxIdle
    /\ TrigIdle
    /\ PlayerIdle
    /\ GridIdle
    /\ RayIdle
    /\ FallIdle
    /\ EnemyIdle
    /\ SaveIdle
    /\ LevelIdle
    /\ UpdateIdle
    /\ DamageIdle
    /\ HoverIdle
    /\ ReloadIdle
    /\ PickupIdle
    /\ InputIdle
    /\ AiIdle
    /\ CrumbleIdle
    /\ RecordsIdle
    /\ StunIdle
    /\ GameIdle
    /\ FreezeIdle
    /\ EventIdle
    /\ OrderIdle
    /\ LayerIdle
    /\ TerminalIdle
SpecJump == InitJump /\ [][JumpNext]_vars

\* the listeners of one event type
InitEvent ==
    /\ EventInit
    /\ WorldInit
    /\ BoxIdle
    /\ TrigIdle
    /\ PlayerIdle
    /\ GridIdle
    /\ RayIdle
    /\ FallIdle
    /\ EnemyIdle
    /\ SaveIdle
    /\ LevelIdle
    /\ UpdateIdle
    /\ DamageIdle
    /\ HoverIdle
    /\ ReloadIdle
    /\ PickupIdle
    /\ InputIdle
    /\ AiIdle
    /\ CrumbleIdle
    /\ RecordsIdle
    /\ StunIdle
    /\ GameIdle
    /\ FreezeIdle
    /\ JumpIdle
    /\ OrderIdle
    /\ LayerIdle
    /\ TerminalIdle
SpecEvent == InitEvent /\ [][EventNext]_vars

\* a game object whose update is called
InitOrder ==
    /\ OrderInit
    /\ WorldInit
    /\ BoxIdle
    /\ TrigIdle
    /\ PlayerIdle
    /\ GridIdle
    /\ RayIdle
    /\ FallIdle
    /\ EnemyIdle
    /\ SaveIdle
    /\ LevelIdle
    /\ UpdateIdle
    /\ DamageIdle
    /\ HoverIdle
    /\ ReloadIdle
    /\ PickupIdle
    /\ InputIdle
    /\ AiIdle
    /\ CrumbleIdle
    /\ RecordsIdle
    /\ StunIdle
    /\ GameIdle
    /\ FreezeIdle
    /\ JumpIdle
    /\ EventIdle
    /\ LayerIdle
    /\ TerminalIdle
SpecOrder == InitOrder /\ [][OrderNext]_vars

\* two overlapping objects and the layer filter
InitLayer ==
    /\ LayerInit
    /\ WorldInit
    /\ BoxIdle
    /\ TrigIdle
    /\ PlayerIdle
    /\ GridIdle
    /\ RayIdle
    /\ FallIdle
    /\ EnemyIdle
    /\ SaveIdle
    /\ LevelIdle
    /\ UpdateIdle
    /\ DamageIdle
    /\ HoverIdle
    /\ ReloadIdle
    /\ PickupIdle
    /\ InputIdle
    /\ AiIdle
    /\ CrumbleIdle
    /\ RecordsIdle
    /\ StunIdle
    /\ GameIdle
    /\ FreezeIdle
    /\ JumpIdle
    /\ EventIdle
    /\ OrderIdle
    /\ TerminalIdle
SpecLayer == InitLayer /\ [][LayerNext]_vars

\* an object falling at terminal velocity
InitTerminal ==
    /\ TerminalInit
    /\ WorldInit
    /\ BoxIdle
    /\ TrigIdle
    /\ PlayerIdle
    /\ GridIdle
    /\ RayIdle
    /\ FallIdle
    /\ EnemyIdle
    /\ SaveIdle
    /\ LevelIdle
    /\ UpdateIdle
    /\ DamageIdle
    /\ HoverIdle
    /\ ReloadIdle
    /\ PickupIdle
    /\ InputIdle
    /\ AiIdle
    /\ CrumbleIdle
    /\ RecordsIdle
    /\ StunIdle
    /\ GameIdle
    /\ FreezeIdle
    /\ JumpIdle
    /\ EventIdle
    /\ OrderIdle
    /\ LayerIdle
SpecTerminal == InitTerminal /\ [][TerminalNext]_vars

(***************************************************************************)
(* Claims about the deferred add and the sweep of destroyed objects.       *)
(***************************************************************************)

\* C1 as stated: during a frame's physics pass, no object passed to addObject
\* during that frame's World.update is in the list Physics.update iterates,
\* and every object so added in the previous frame is in it.
C1_AddedNextFrame ==
    pc = "physics" =>
        /\ \A o \in addedNow : o \notin SeqSet(physObjects)
        /\ \A o \in addedPrev : o \in SeqSet(physObjects)

\* C1 (amended): an object that is not in world.gameObjects when it is passed
\* to addObject during World.update is not in the list that frame's
\* Physics.update iterates; it is in the list the next frame's Physics.update
\* iterates if that frame's World.update is not paused and the object has by
\* then neither been destroyed nor been on the pending-remove list.
C1_DeferredAdd ==
    pc = "physics" =>
        /\ \A o \in addedFresh : o \notin SeqSet(physObjects)
        /\ ranUpdate =>
             \A o \in addedPrev \ (destroyed \cup sweptRemove) :
                 o \in SeqSet(physObjects)

C1_Witness ==
    /\ pc = "physics"
    /\ ranUpdate
    /\ \E o \in addedPrev \ (destroyed \cup sweptRemove) : o \in SeqSet(physObjects)
    /\ \E o \in addedFresh : o \notin SeqSet(physObjects)

\* C2 as stated: when a frame has completed, no object destroyed during that
\* frame is in world.gameObjects.
C2_GoneAtFrameEnd ==
    pc = "done" => \A o \in destroyedNow : o \notin SeqSet(gameObjects)

\* C2 (amended): an object destroyed during a frame is no longer in
\* world.gameObjects once the next frame's World.update, the world not being
\* paused, has run processObjectChanges.
C2_GoneAfterNextSweep ==
    (pc \in {"update", "physics", "done"} /\ ranUpdate) =>
        \A o \in destroyedPrev : o \notin SeqSet(gameObjects)

C2_Witness ==
    /\ pc = "update"
    /\ ranUpdate
    /\ destroyedPrev # {}
    /\ \A o \in destroyedPrev : o \notin SeqSet(gameObjects)

\* C3: once the World.update pass that follows an object's destroy() has run,
\* the object is in no layer's object list and not in world.gameObjects.
C3_SweptFromLayers ==
    (pc \in {"update", "physics", "done"} /\ ranUpdate) =>
        \A o \in destroyedPrev :
            /\ o \notin SeqSet(gameObjects)
            /\ \A n \in LayerNames : o \notin SeqSet(layers[n])


(***************************************************************************)
(* Claims about the resolution of a colliding pair.                        *)
(***************************************************************************)

\* the axis of the recorded normal, and the overlap on it
OverlapOnNormal(c, pos) ==
    IF c.nx # 0 THEN OverlapX(pos["A"], pos["B"]) ELSE OverlapY(pos["A"], pos["B"])

\* C4: for two solid, equal-mass, non-trigger boxes overlapping by p along
\* the axis of least overlap, one resolution pass shrinks their overlap on
\* that axis by at least 0.8 p.
C4_PushedApart ==
    ( /\ bphase = "resolved"
      /\ bhit.hit
      /\ bsolid["A"] /\ bsolid["B"]
      /\ ~btrigger["A"] /\ ~btrigger["B"]
      /\ bmass["A"] = bmass["B"] )
    => 10 * (OverlapOnNormal(bhit, bpos0) - OverlapOnNormal(bhit, bpos)) >= 8 * bhit.pen

(***************************************************************************)
(* Claims about trigger callbacks.                                         *)
(***************************************************************************)

\* C5: while a trigger and a non-trigger overlap, onTriggerEnter has been
\* invoked on the trigger at most once for that overlap (once at its onset,
\* not once per sub-step).
C5_EnterOncePerOverlap == tcalls <= 1

(***************************************************************************)
(* Claims about the player's ability gating.                               *)
(***************************************************************************)

\* the ability an action method belongs to is disabled
ActionDisabled(op, ab) ==
    \/ op = "performDash" /\ ~hasAbility(ab, "dash")
    \/ op = "performMultiJump" /\ ~hasAbility(ab, "doubleJump")
                               /\ ~hasAbility(ab, "tripleJump")
    \/ op = "performWallJump" /\ ~hasAbility(ab, "wallJump")

\* C6: a call of performDash, performMultiJump or performWallJump while the
\* corresponding ability is disabled leaves the velocity and all other
\* player state unchanged.
C6_DisabledNoEffect ==
    [][ActionDisabled(pop', pab) =>
         UNCHANGED <<pab, pvel, pfacing, pgrav, pgrounded, pjumpBuf,
                     plastGround, ptimers>>]_vars

\* C7: right after performDash with the dash ability unlocked, the velocity
\* is the dash speed along the facing direction and the dash cooldown is
\* running (isAbilityCoolingDown('dash')).
C7_DashStartsCooldown ==
    (pop = "performDash" /\ hasAbility(pab, "dash")) =>
        /\ pvel = [x |-> pfacing * DashSpeed * VScale, y |-> 0]
        /\ isAbilityCoolingDown(pab, "dash")

(***************************************************************************)
(* Claims about the broad phase.                                           *)
(***************************************************************************)

\* some cell of the grid holds both a and b
GridShare(a, b) == \E k \in 1..Len(grid) : {a, b} \subseteq SeqSet(grid[k].objs)

\* C8: getPotentialCollisionPairs returns every pair of distinct objects of
\* the grid that share a cell, whether their ids are auto-generated numbers
\* or strings from spawn data.
C8_EverySharingPair ==
    gphase = "paired" =>
        \A a \in GObjs, b \in GObjs :
            (a # b /\ GridShare(a, b)) =>
                (<<a, b>> \in SeqSet(gpairs) \/ <<b, a>> \in SeqSet(gpairs))

(***************************************************************************)
(* Claims about raycast.                                                   *)
(***************************************************************************)

\* the distance from the origin to the face of the box the ray meets first
SlabDistance == IF rdir = 1 THEN rbx - rox ELSE rox - (rbx + ObjWidth)

\* the box lies directly in front of the origin, within maxDistance
BoxInFront == InRow(roy) /\ SlabDistance > 0 /\ SlabDistance <= rmax

\* the ray misses the box: another row, the box behind the origin, or the
\* box further away than maxDistance
BoxMissed ==
    \/ ~InRow(roy)
    \/ (rdir = 1 /\ rbx + ObjWidth < rox)
    \/ (rdir = -1 /\ rox < rbx)
    \/ SlabDistance > rmax

\* C9: a raycast toward a single box directly in front within maxDistance
\* returns exactly one hit whose distance is the slab-intersection distance,
\* and a raycast that misses the box returns the empty list.
C9_OneHitOrNone ==
    rphase = "done" =>
        /\ BoxInFront => /\ ~rres.threw
                         /\ Len(rres.hits) = 1
                         /\ rres.hits[1].distance = SlabDistance
        /\ BoxMissed => /\ ~rres.threw
                        /\ rres.hits = <<>>

(***************************************************************************)
(* Claims about the end-to-end fall.                                       *)
(***************************************************************************)

\* the bottom of the player's box is within one unit of the top of the strip
\* and the vertical speed is below 5 units per second
AtRestOnStrip ==
    /\ fstate = "playing"
    /\ Abs(fy + PlayerHeight * PScale - StripTop) <= PScale
    /\ Abs(fvy) <= 5 * VScale

\* C10: with a solid strip along the bottom, the player spawned 50 units
\* above it and gravity 800, the frames bring the player to rest on the
\* strip and it stays there: from the frame on in which the bottom of its box
\* has come down to the top of the strip, the box is at rest on the strip,
\* never embedded in it or past it.
C10_RestsOnStrip ==
    (fstate = "playing" /\ fy + PlayerHeight * PScale >= StripTop) => AtRestOnStrip

(***************************************************************************)
(* Claims about the enemy patrol.                                          *)
(***************************************************************************)

\* the distance from the start reached the patrol distance in the last frame
ReachedPatrolDistance ==
    /\ eprevDist < PatrolDistance * TScale
    /\ edist >= PatrolDistance * TScale

\* C11: a patrolling enemy reverses its horizontal velocity in the frame in
\* which its distance from the start reaches patrolDistance, and reverses at
\* no other time except when the patrol timeout expires, whatever the frame
\* deltas.
C11_ReversesAtDistanceOnly ==
    /\ ReachedPatrolDistance => eflipped
    /\ eflipped => (ReachedPatrolDistance \/ etimedOut)

(***************************************************************************)
(* Claims about the layers and the level life cycle.                       *)
(***************************************************************************)

\* how often o occurs in the object lists of the layers
Occurrences(s, o) == Cardinality({i \in 1..Len(s) : s[i] = o})
RECURSIVE OccurrencesFrom(_, _)
OccurrencesFrom(i, o) ==
    IF i > Len(LayerOrder) THEN 0
    ELSE (IF LayerOrder[i] \in arrayLayers THEN 0
          ELSE Occurrences(layers[LayerOrder[i]], o)) + OccurrencesFrom(i + 1, o)

\* C12: when World.update has run processObjectChanges and returns, every
\* object in world.gameObjects is in exactly one layer's object list, exactly
\* once, after any sequence of addObject, removeObject and destroy calls.
C12_ExactlyOneLayer ==
    (pc = "physics" /\ ranUpdate) =>
        \A o \in SeqSet(gameObjects) : OccurrencesFrom(1, o) = 1

\* C13: once clearLevel has returned (so also after loadLevel), every object
\* in world.gameObjects, at once and after any later update, is flagged
\* persistent or was passed to addObject after that clearLevel call.
C13_OnlyPersistentSurvive ==
    sinceClear.cleared =>
        \A o \in SeqSet(gameObjects) : Persistent(o) \/ o \in sinceClear.added

(***************************************************************************)
(* Claims about saving and restoring.                                      *)
(***************************************************************************)

\* C14: in a world with a loaded level, loadGameState of the snapshot that
\* saveGameState returned completes without error and leaves the level, the
\* current checkpoint, the flags, the collectibles and the clock as they
\* were when the snapshot was taken.
C14_SnapshotRoundTrip ==
    (sop = "loadGameState" /\ ssnap.level # "null") =>
        /\ sres = "returned"
        /\ scur = ssnap.level
        /\ scp = ssnap.checkpoint
        /\ sflags = ssnap.flags
        /\ scoll = ssnap.collectibles
        /\ stime = ssnap.worldTime

(***************************************************************************)
(* Claims about what loadLevel builds.                                     *)
(***************************************************************************)

\* the tile colliders among the world's objects: everything but the player
TileColliders(objs) == SelectSeq(objs, LAMBDA o : o # "player")

\* C15: after loadLevel and the next World.update the world holds one solid
\* collider object for every non-zero cell of the level's collision layer
\* (LevelWidth cells for each solid row).
C15_ColliderPerSolidCell ==
    (fstate = "playing" /\ fframes >= 1) =>
        Len(TileColliders(fobjects)) = Cardinality(fcollision) * LevelWidth

(***************************************************************************)
(* Claims about malformed level descriptions.                              *)
(***************************************************************************)

\* C16: loadLevel on a description with an entity of unknown type, without
\* the collision layer or without the entity list does not throw; the
\* unknown or missing part is skipped, every checkpoint is loaded and, once
\* the entity classes are there, every entity of a known type.
C16_MalformedLevelSkipped ==
    lphase = "loaded" =>
        /\ lres = "returned"
        /\ lcps = ldesc.checkpoints
        /\ lasync = "done" => lents = processEntities(EntitiesOrEmpty(ldesc))

(***************************************************************************)
(* Claims about a throwing update.                                         *)
(***************************************************************************)

\* the active objects whose update does not throw
SoundObjects == {i \in uactive : ~UpdateThrows(ukinds[i])}

\* C17: when one object's update throws during a frame, every other active
\* object still gets its update in that frame and the frame (World.update,
\* then Physics.update) runs to completion.
C17_ThrowingUpdateContained ==
    /\ upc # "crashed"
    /\ upc = "done" => (uupdated = SoundObjects /\ uphysics)

(***************************************************************************)
(* Claims about taking damage.                                             *)
(***************************************************************************)

\* takeDamage was just called while the invulnerability timer was above 0
CalledWhileInvulnerable == dop = "takeDamage" /\ dpre.inv > 0

\* C18: while the invulnerability timer is above 0, takeDamage returns false
\* and leaves health, lives and velocity as they were, and it does not start
\* the invulnerability window again.
C18_BlockedWhileInvulnerable ==
    CalledWhileInvulnerable =>
        /\ dres = "false"
        /\ dhealth = dpre.health
        /\ dlives = dpre.lives
        /\ dvel = dpre.vel
        /\ dinv = dpre.inv

\* a call in the middle of a window, made on a moving player that was hit before
C18_Witness ==
    /\ CalledWhileInvulnerable
    /\ dres = "false"
    /\ dhealth < MaxHealth
    /\ dvel # 0
    /\ dinv < InvulnerabilityDuration * TScale

\* the two objects of a returned pair, as a set
PairSet(p) == {p[1], p[2]}

\* a and b are together in at least two cells of the grid
ShareTwoCells(a, b) ==
    \E k1, k2 \in 1..Len(grid) :
        /\ k1 # k2
        /\ {a, b} \subseteq SeqSet(grid[k1].objs)
        /\ {a, b} \subseteq SeqSet(grid[k2].objs)

\* C19: getPotentialCollisionPairs never returns the same unordered pair of
\* objects twice in one call, however many cells the two objects share.
C19_NoPairTwice ==
    gphase = "paired" =>
        \A i, j \in 1..Len(gpairs) :
            i # j => PairSet(gpairs[i]) # PairSet(gpairs[j])

\* two objects that share two cells were returned as a pair
C19_Witness ==
    /\ gphase = "paired"
    /\ \E i \in 1..Len(gpairs) :
           /\ gpairs[i][1] # gpairs[i][2]
           /\ ShareTwoCells(gpairs[i][1], gpairs[i][2])

\* one of the two boxes is a trigger
TriggerPair == btrigger["A"] \/ btrigger["B"]

\* C20: resolving a collision record in which either box is a trigger
\* changes neither box's position nor its velocity.
C20_TriggerPairUntouched ==
    [][(bphase = "overlap" /\ TriggerPair) => (bpos' = bpos /\ bvel' = bvel)]_vars

\* a pass has resolved a hit between a trigger and a solid box that were
\* overlapping and closing in on each other
C20_Witness ==
    /\ bphase = "resolved"
    /\ bhit.hit
    /\ TriggerPair
    /\ bsolid["A"] /\ bsolid["B"]
    /\ bvel["B"].x * bhit.nx + bvel["B"].y * bhit.ny < 0

(***************************************************************************)
(* Claims about gravity.                                                   *)
(***************************************************************************)

\* the object has gravityScale 0, started at rest and was never pushed
Weightless == hscale = 0 /\ hstart.vy = 0 /\ ~hforced

\* C21: an object with gravityScale 0, zero velocity and no force applied
\* has the position.y it started with after any number of frames.
C21_WeightlessStaysPut == Weightless => hy = hstart.y

\* such an object after the last frame of the run
C21_Witness == Weightless /\ hframes = MaxHoverFrames /\ hy = hstart.y

(***************************************************************************)
(* Claims about the order of World.update.                                 *)
(***************************************************************************)

\* World.update has got to its first GameObject.update call in this step
ReachesObjectUpdates == pc = "idle" /\ pc' = "update"

\* C22: in every non-paused World.update the pending-add and pending-remove
\* lists have been processed and are empty before the frame's first
\* GameObject.update call: a pending object is in the list unless it was
\* also removed or was destroyed, and a pending removal has taken one entry
\* of the object out of the list.
C22_PendingDoneBeforeUpdates ==
    [][ReachesObjectUpdates =>
          /\ toAdd' = <<>>
          /\ toRemove' = <<>>
          /\ \A o \in SeqSet(toAdd) :
                 o \in SeqSet(gameObjects') \/ o \in SeqSet(toRemove) \/ o \in destroyed
          /\ \A o \in SeqSet(toRemove) :
                 \/ o \notin SeqSet(gameObjects')
                 \/ Len(SelectSeq(gameObjects', LAMBDA x : x = o))
                      < Len(SelectSeq(gameObjects \o toAdd, LAMBDA x : x = o))]_vars

\* the first World.update has taken in an added object and swept a removal,
\* and is about to update the objects
C22_Witness ==
    /\ pc = "update"
    /\ frame = 1
    /\ ranUpdate
    /\ gameObjects # <<>>
    /\ sweptRemove # {}
    /\ toAdd = <<>>
    /\ toRemove = <<>>

\* C23: when loadLevel dispatches levelLoaded (its last statement before it
\* returns), every entity of the level's spawn list has been instantiated
\* and queued for addition.
C23_EntitiesQueuedAtEvent ==
    (lphase = "loaded" /\ lres = "returned" /\ lasync # "rejected")
        => lents = processEntities(EntitiesOrEmpty(ldesc))

(***************************************************************************)
(* Claims about the layer Map.                                             *)
(***************************************************************************)

\* C25: after any number of loadLevel calls each of the eight named layers
\* still holds a list of objects.
C25_LayersStayLists == \A n \in LayerNames : n \notin arrayLayers

(***************************************************************************)
(* Claims about loading a second level.                                    *)
(***************************************************************************)

\* C24: once loadLevel has been called for a level, no entity made from the
\* spawn list of a level loaded before it is in the pending-add list or in
\* the world, whenever the earlier call's imports complete.
C24_NoStaleEntities ==
    \A i \in 1..Len(rtoAdd \o rlive) : (rtoAdd \o rlive)[i].level = rcur

(***************************************************************************)
(* Claims about collecting a power-up.                                     *)
(***************************************************************************)

C27_PressSeenNextFrame == iframes > 0 => (iseen <=> ipressed)

(***************************************************************************)
(* Claims about the enemy's AI states.                                     *)
(***************************************************************************)

\* C29: an enemy that lost sight of the player while chasing is in
\* investigate, and after every later frame in which the player is still
\* out of sight it is in investigate again unless its centre has come
\* within 20 units of the last seen position.
C29_InvestigatesUntilArrived ==
    /\ (ares = "returned" /\ aprev = "chase" /\ ~asight) => astate = "investigate"
    /\ (ares = "returned" /\ aprev = "investigate" /\ ~asight)
          => \/ astate = "investigate"
             \/ alast = <<>>

(***************************************************************************)
(* Claims about a fragile platform.                                        *)
(***************************************************************************)

C26_DestroyedLeftAlone == zlate = {}

(***************************************************************************)
(* Claims about the dash's delayed restore.                                *)
(***************************************************************************)

\* C31: while a dash's duration has not elapsed (its restore callback is
\* still pending) the player's gravityScale is 0, and once no dash is in
\* progress it is back at 1, for every interleaving of the restore callbacks
\* with frames and further dashes.
C31_WeightlessWhileDashing ==
    /\ ptimers > 0 => pgrav = 0
    /\ (ptimers = 0 /\ pop = "dashTimeout") => pgrav = 10

(***************************************************************************)
(* Claims about a stunned flying enemy.                                    *)
(***************************************************************************)

\* C32: a flying enemy stunned by a non-lethal hit stays stunned until
\* StunDelay after its most recent hit: the callback of an earlier hit never
\* ends a later stun early, and no callback changes the state of an enemy
\* that has been destroyed since.
C32_StunLastsFromLatestHit ==
    /\ ~nearly
    /\ ~nposthumous
    /\ (nstate = "stunned" /\ ~ndestroyed) => nsince <= StunDelay

(***************************************************************************)
(* Claims about the game's pause flag.                                     *)
(***************************************************************************)

\* C33: after any sequence of startGame, startLevel, loadCustomLevel,
\* loadGame, pauseGame, resumeGame and gameOver, game.paused is true exactly
\* when gameState is 'paused' (so resumeGame resumes every suspended game).
C33_PausedIffStatePaused == jpaused <=> (jstate = "paused")

(***************************************************************************)
(* Claims about a paused or stopped world.                                 *)
(***************************************************************************)

\* C34: while the world is paused or its time scale is 0, no step of a frame
\* changes the object's position or velocity or advances the world clock.
C34_FrozenWhilePaused ==
    [][((vpaused \/ vtimeScale = 0) /\ vpaused' = vpaused
            /\ vtimeScale' = vtimeScale)
        => (vposy' = vposy /\ vvely' = vvely /\ vworldTime' = vworldTime)]_vars

(***************************************************************************)
(* Claims about the player's lives.                                        *)
(***************************************************************************)

\* C35: player.lives never becomes negative: after the death that takes the
\* last life (game over) no further life is deducted, for any sequence of
\* takeDamage calls and frames.
C35_LivesNeverNegative == dlives >= 0

(***************************************************************************)
(* Claims about jumping in the air.                                        *)
(***************************************************************************)

\* C36: with doubleJump unlocked the player makes at most one mid-air jump
\* (at most two with tripleJump unlocked too) after it has walked off an
\* edge and before it lands again.
C36_MidAirJumpsLimited ==
    xmulti <= (IF hasAbility(xab, "tripleJump") THEN 2 ELSE 1)

(***************************************************************************)
(* Claims about the dispatch of a world event.                             *)
(***************************************************************************)

\* C37: triggerEvent invokes every callback that was registered for the type
\* when the call started, once each and in registration order, also when a
\* callback adds or removes listeners during the dispatch.
C37_DispatchesStartList == oop = "triggerEvent" => ocalled = ostart

(***************************************************************************)
(* Claims about the steps of an object's update.                           *)
(***************************************************************************)

\* C38: update on an active, non-destroyed object runs the custom hook
\* first, then the animation, then the physics integration, and returns
\* with acceleration zero; on an inactive or destroyed object it changes
\* nothing.
C38_HookThenAnimationThenPhysics ==
    yop = "update" =>
        IF ypre.active /\ ~ypre.destroyed
        THEN /\ ytrace = <<"onUpdate", "updateAnimation", "updatePhysics">>
             /\ yacc = 0
        ELSE /\ ypos = ypre.pos
             /\ yvel = ypre.vel
             /\ yacc = ypre.acc

(***************************************************************************)
(* Claims about the collision layer matrix.                                *)
(***************************************************************************)

\* C39: a pair reaches the AABB test only if a layer of one object and a
\* layer of the other are adjacent in the collision layer matrix, as
\* canLayersCollide reports; a layer the matrix does not hold gives no test.
C39_TestedOnlyIfMatrixAllows ==
    ctested =>
        \E layerA \in collisionLayers(ckindA), layerB \in collisionLayers(ckindB) :
            canLayersCollide(layerA, layerB) \/ canLayersCollide(layerB, layerA)

(***************************************************************************)
(* Claims about the terminal velocity.                                     *)
(***************************************************************************)

\* C40: after every Physics.update the vertical velocity of an active object
\* with gravityScale > 0 is no greater than the terminal velocity, for every
\* frame delta up to the cap.
C40_AtMostTerminalVelocity ==
    wlast = "physics" => wvel <= TerminalVelocity * VScale

====
